---- MODULE Spec2Model ----
(***************************************************************************)
(* A model of python-mgearman: the connection (buffers, queues, framing),  *)
(* the connection manager's poll loop, the client command handler and the  *)
(* client facade, together with the sockets and Gearman servers they talk  *)
(* to.  Python objects are records; a method is an operator from the       *)
(* program state to the program state (field exc holds the exception in    *)
(* flight), and an action commits the state a whole call produces.         *)
(***************************************************************************)
EXTENDS Integers, Sequences, FiniteSets, TLC

(* ------------------------------ bounds -------------------------------- *)
\* number of job requests the application creates
NReqs == 3
\* max_retries values the application passes are 0..MaxRetries
MaxRetries == 1
\* job handles a server hands out are 1..MaxHandle
MaxHandle == 3
\* the clock runs from 1 to MaxNow
MaxNow == 2
\* get_job_statuses calls the application makes
MaxStatusCalls == 1
MaxFaults == 2
MaxJobs == 2

Conns == {"c1", "c2"}
Reqs == 1..NReqs

(* ------------------------- values and names --------------------------- *)
\* Python None in a slot that otherwise holds a byte string
None == <<-1>>
\* Python None in a slot that otherwise holds a handler (named by its connection)
NoHandler == "None"

JOB_UNKNOWN == "UNKNOWN"
JOB_PENDING == "PENDING"
JOB_CREATED == "CREATED"
JOB_FAILED == "FAILED"
JOB_COMPLETE == "COMPLETE"
JobStates == {JOB_UNKNOWN, JOB_PENDING, JOB_CREATED, JOB_FAILED, JOB_COMPLETE}

PRIORITY_NONE == "NONE"
PRIORITY_LOW == "LOW"
PRIORITY_HIGH == "HIGH"

\* bytes are 0..255; these are the byte strings the model sends around
TaskBytes == <<116>>
DataBytes == <<100>>
UniqueOf(r) == <<117, 48 + r>>
HandleBytes(h) == <<72, 48 + h>>
ResultOf(unique) == <<114>> \o unique

(* ------------------------------ protocol ------------------------------ *)
NULL_CHAR == 0
NEWLINE == 10
MAGIC_REQ == <<0, 82, 69, 81>>
MAGIC_RES == <<0, 82, 69, 83>>
COMMAND_HEADER_SIZE == 12

GEARMAN_COMMAND ==
    [ CAN_DO |-> 1, RESET_ABILITIES |-> 3, PRE_SLEEP |-> 4, NOOP |-> 6,
      SUBMIT_JOB |-> 7, JOB_CREATED |-> 8, GRAB_JOB |-> 9, NO_JOB |-> 10,
      JOB_ASSIGN |-> 11, WORK_STATUS |-> 12, WORK_COMPLETE |-> 13,
      WORK_FAIL |-> 14, GET_STATUS |-> 15, ECHO_REQ |-> 16, ECHO_RES |-> 17,
      SUBMIT_JOB_BG |-> 18, ERROR |-> 19, STATUS_RES |-> 20,
      SUBMIT_JOB_HIGH |-> 21, SET_CLIENT_ID |-> 22, WORK_EXCEPTION |-> 25,
      WORK_DATA |-> 28, WORK_WARNING |-> 29, GRAB_JOB_UNIQ |-> 30,
      JOB_ASSIGN_UNIQ |-> 31, SUBMIT_JOB_HIGH_BG |-> 32,
      SUBMIT_JOB_LOW |-> 33, SUBMIT_JOB_LOW_BG |-> 34, TEXT_COMMAND |-> 9999 ]

SubmitTypes ==
    { GEARMAN_COMMAND.SUBMIT_JOB, GEARMAN_COMMAND.SUBMIT_JOB_BG,
      GEARMAN_COMMAND.SUBMIT_JOB_HIGH, GEARMAN_COMMAND.SUBMIT_JOB_HIGH_BG,
      GEARMAN_COMMAND.SUBMIT_JOB_LOW, GEARMAN_COMMAND.SUBMIT_JOB_LOW_BG }

\* the registry: the ordered field names of each command type
GEARMAN_PARAMS_FOR_COMMAND(t) ==
    CASE t \in SubmitTypes -> <<"task", "unique", "data">>
      [] t = GEARMAN_COMMAND.JOB_CREATED -> <<"job_handle">>
      [] t = GEARMAN_COMMAND.WORK_STATUS -> <<"job_handle", "numerator", "denominator">>
      [] t \in {GEARMAN_COMMAND.WORK_COMPLETE, GEARMAN_COMMAND.WORK_EXCEPTION,
                GEARMAN_COMMAND.WORK_DATA, GEARMAN_COMMAND.WORK_WARNING}
            -> <<"job_handle", "data">>
      [] t \in {GEARMAN_COMMAND.WORK_FAIL, GEARMAN_COMMAND.GET_STATUS} -> <<"job_handle">>
      [] t = GEARMAN_COMMAND.STATUS_RES
            -> <<"job_handle", "known", "running", "numerator", "denominator">>
      [] t = GEARMAN_COMMAND.ERROR -> <<"error_code", "error_text">>
      [] t \in {GEARMAN_COMMAND.ECHO_REQ, GEARMAN_COMMAND.ECHO_RES} -> <<"data">>
      [] t = GEARMAN_COMMAND.CAN_DO -> <<"task">>
      [] t = GEARMAN_COMMAND.SET_CLIENT_ID -> <<"client_id">>
      [] t = GEARMAN_COMMAND.JOB_ASSIGN -> <<"job_handle", "task", "data">>
      [] t = GEARMAN_COMMAND.JOB_ASSIGN_UNIQ -> <<"job_handle", "task", "unique", "data">>
      [] t = GEARMAN_COMMAND.TEXT_COMMAND -> <<"raw_text">>
      [] OTHER -> << >>

KnownCommands == { GEARMAN_COMMAND[k] : k \in DOMAIN GEARMAN_COMMAND }

\* struct.pack('!I', n)
U32(n) == << (n \div 16777216) % 256, (n \div 65536) % 256, (n \div 256) % 256, n % 256 >>
\* struct.unpack('!I', b)
FromU32(b) == ((b[1] * 256 + b[2]) * 256 + b[3]) * 256 + b[4]

\* NULL_CHAR.join(fields)
RECURSIVE JoinNul(_)
JoinNul(fields) ==
    IF Len(fields) = 0 THEN << >>
    ELSE IF Len(fields) = 1 THEN fields[1]
    ELSE fields[1] \o <<NULL_CHAR>> \o JoinNul(Tail(fields))

\* the index of the first byte b of s at or after position i, 0 when there is none
RECURSIVE IndexOf(_, _, _)
IndexOf(s, b, i) ==
    IF i > Len(s) THEN 0
    ELSE IF s[i] = b THEN i
    ELSE IndexOf(s, b, i + 1)

\* payload.split(NULL_CHAR, maxsplit)
RECURSIVE SplitNul(_, _)
SplitNul(s, maxsplit) ==
    LET i == IndexOf(s, NULL_CHAR, 1)
    IN  IF maxsplit = 0 \/ i = 0 THEN << s >>
        ELSE << SubSeq(s, 1, i - 1) >> \o SplitNul(SubSeq(s, i + 1, Len(s)), maxsplit - 1)

\* dict(zip(names, values))
ZipArgs(names, values) ==
    [ k \in { names[i] : i \in 1..Len(names) } |->
        values[CHOOSE i \in 1..Len(names) : names[i] = k] ]

\* what a parser returns: (cmd_type, cmd_args, cmd_len), or ProtocolError raised
Parsed(t, a, n) == [err |-> "none", cmd_type |-> t, cmd_args |-> a, cmd_len |-> n]
NotYet == Parsed(0, << >>, 0)
ParseError == [err |-> "ProtocolError", cmd_type |-> 0, cmd_args |-> << >>, cmd_len |-> 0]

pack_binary_command(cmd_type, cmd_args, magic) ==
    LET params == GEARMAN_PARAMS_FOR_COMMAND(cmd_type)
        payload == JoinNul([i \in 1..Len(params) |-> cmd_args[params[i]]])
    IN  magic \o U32(cmd_type) \o U32(Len(payload)) \o payload

pack_text_command(cmd_type, cmd_args) == cmd_args["raw_text"]

parse_binary_command(in_buffer, magic) ==
    IF Len(in_buffer) < COMMAND_HEADER_SIZE THEN NotYet
    ELSE
      LET cmd_type == FromU32(SubSeq(in_buffer, 5, 8))
          cmd_len == FromU32(SubSeq(in_buffer, 9, 12))
          params == GEARMAN_PARAMS_FOR_COMMAND(cmd_type)
          size == COMMAND_HEADER_SIZE + cmd_len
          payload == SubSeq(in_buffer, COMMAND_HEADER_SIZE + 1, size)
          split == IF Len(params) > 0 THEN SplitNul(payload, Len(params) - 1) ELSE << >>
      IN  IF SubSeq(in_buffer, 1, 4) /= magic THEN ParseError
          ELSE IF cmd_type \notin KnownCommands \/ cmd_type = GEARMAN_COMMAND.TEXT_COMMAND
            THEN ParseError
          ELSE IF Len(in_buffer) < size THEN NotYet
          ELSE IF Len(params) = 0 /\ cmd_len > 0 THEN ParseError
          ELSE IF Len(split) /= Len(params) THEN ParseError
          ELSE Parsed(cmd_type, ZipArgs(params, split), size)

parse_text_command(in_buffer) ==
    LET i == IndexOf(in_buffer, NEWLINE, 1)
        line == SubSeq(in_buffer, 1, i - 1)
    IN  IF i = 0 THEN NotYet
        ELSE IF IndexOf(line, NULL_CHAR, 1) /= 0 THEN ParseError
        ELSE Parsed(GEARMAN_COMMAND.TEXT_COMMAND, [raw_text |-> line], i)

(* ---------------------------- the state -------------------------------- *)
VARIABLES
    connection_ls,  \* GearmanConnectionManager.connection_ls, from host_list
    now,            \* time.time(), in whole seconds
    conn,           \* GearmanConnection: the fields of each connection
    handler,        \* GearmanClientCommandHandler of each connection
    req,            \* GearmanJobRequest (with its GearmanJob) objects
    request_trace,  \* GearmanClient.request_trace: request -> deque of connections
    net,            \* each connection's socket and the server behind it
    nextHandle,     \* the next job handle a server hands out
    call,           \* the application's call in progress and its poll loop
    lock,           \* manager.lock and the pool's _callback_lock: who holds them
    thread,         \* where the main loop and the pool's callbacks stand
    hist,           \* history: what was emitted, bound and reset, for the claims
    worker          \* GearmanWorker: its fields, its pool and its notification pipe

vars ==
    <<connection_ls, now, conn, handler, req, request_trace, net, nextHandle, call,
      lock, thread, hist, worker>>

connect_cooldown_seconds == 1
\* read_data_from_socket(bytes_to_read=4096)
bytes_to_read == 4096

EmptyDict == << >>

FreshConn ==
    [ connected |-> FALSE, sock |-> FALSE, write_only |-> FALSE,
      allowed_connect_time |-> 0,
      incoming_buffer |-> << >>, outgoing_buffer |-> << >>,
      incoming_commands |-> << >>, outgoing_commands |-> << >> ]

FreshHandler == [ request_queue |-> << >>, request_trace |-> EmptyDict ]

\* a socket with no peer: nothing in flight, nothing to read
NoSession(up, room) ==
    [ up |-> up, room |-> room, eof |-> FALSE, err |-> FALSE,
      flight |-> << >>, s2c |-> << >>, c2s |-> << >>, jobs |-> {} ]

\* a request object not yet constructed by the application
NoRequest ==
    [ exists |-> FALSE, background |-> FALSE, priority |-> PRIORITY_NONE,
      connect_attempts |-> 0, max_connect_attempts |-> 0,
      handle |-> None, handler |-> NoHandler,
      result |-> None, exception |-> None,
      warning_updates |-> << >>, data_updates |-> << >>,
      status |-> EmptyDict, state |-> JOB_UNKNOWN, timed_out |-> FALSE ]

IdleCall ==
    [ pc |-> "idle", fn |-> "none", reqs |-> << >>, block |-> FALSE, deadline |-> 0,
      workset |-> {}, workable |-> FALSE, pollable |-> FALSE, raised |-> "none",
      statuses |-> 0, jobs |-> 0 ]

Callbacks == {"t1", "t2"}

NoLocks == [ manager |-> "free", callback |-> "free" ]

\* the main loop outside handle_write, no callback spawned
NoThreads ==
    [ main |-> [pc |-> "idle", packed_data |-> << >>, ret |-> FALSE],
      cb |-> [t \in Callbacks |-> "unborn"] ]

FreshHist ==
    [ emitted |-> [c \in Conns |-> << >>],
      ncreated |-> [c \in Conns |-> 0],
      bound |-> [actual |-> 0, expected |-> 0, k |-> 0],
      submits |-> [r \in Reqs |-> 0],
      created |-> {},
      enqueued |-> << >>,
      served |-> << >>,
      sendlog |-> << >>,
      faults |-> 0,
      edges |-> {},
      refused |-> {},
      chosen |-> {},
      handled |-> << >>,
      kept |-> {} ]

\* _NotificationConnection just constructed: no pipe yet
NoPipe == [ peer_read |-> FALSE, peer_send |-> FALSE, connected |-> FALSE, data |-> << >> ]

\* GearmanGeventPool just constructed
FreshPool ==
    [ reserved |-> 0, running |-> 0, workers |-> EmptyDict, reapq |-> << >>,
      terminated |-> FALSE ]

\* history of the last step of a worker: the close() calls made, the NOOP
\* dispatched, the set_client_id call, the result commands shutdown discarded,
\* the writes to the notification pipe, the set_state calls of connect(), the
\* ERROR frames dispatched, the jobs whose callback raised, the handlers that
\* prepare() sent back to sleep, the handlers prepare() was called on
NoStep ==
    [ closed |-> {}, noop |-> {}, idset |-> {}, lost |-> {}, notified |-> {},
      setstate |-> {}, error |-> {}, raised |-> {}, prepared |-> {}, woken |-> {} ]

\* the manager is a client: no worker was constructed.  concurrency 0 is None;
\* stale holds the connections whose sock attribute is a closed socket;
\* reports is the history of the terminal reports enqueued for each job
NoWorker ==
    [ constructed |-> FALSE, concurrency |-> 0,
      abilities |-> << >>, client_id |-> None,
      handler_state |-> [abilities |-> << >>, client_id |-> None],
      terminated |-> FALSE, pipe |-> NoPipe, pool |-> FreshPool,
      stale |-> {}, assigned |-> 0, reports |-> EmptyDict, step |-> NoStep ]

\* the program state an operation starts from; what the last step reset or
\* refused is forgotten
Cur ==
    [ now |-> now, conn |-> conn, handler |-> handler, req |-> req,
      request_trace |-> request_trace, net |-> net, nextHandle |-> nextHandle,
      hist |-> [hist EXCEPT !.edges = {}, !.refused = {}, !.chosen = {},
                           !.handled = << >>, !.kept = {}],
      worker |-> [worker EXCEPT !.step = NoStep],
      exc |-> "none", ret |-> FALSE, broken |-> {} ]

\* the state of a client just constructed, before the host list is read
Blank ==
    [ now |-> 1,
      conn |-> [c \in Conns |-> FreshConn],
      handler |-> [c \in Conns |-> FreshHandler],
      req |-> [r \in Reqs |-> NoRequest],
      request_trace |-> [r \in Reqs |-> << >>],
      net |-> [c \in Conns |-> NoSession(TRUE, 4096)],
      nextHandle |-> 1,
      hist |-> FreshHist,
      worker |-> NoWorker,
      exc |-> "none", ret |-> FALSE, broken |-> {} ]

\* the program is in state S
StateIs(S) ==
    /\ now = S.now
    /\ conn = S.conn
    /\ handler = S.handler
    /\ req = S.req
    /\ request_trace = S.request_trace
    /\ net = S.net
    /\ nextHandle = S.nextHandle
    /\ hist = S.hist
    /\ worker = S.worker

CommitState(S) ==
    /\ now' = S.now
    /\ conn' = S.conn
    /\ handler' = S.handler
    /\ req' = S.req
    /\ request_trace' = S.request_trace
    /\ net' = S.net
    /\ nextHandle' = S.nextHandle
    /\ hist' = S.hist
    /\ worker' = S.worker
    /\ UNCHANGED connection_ls

\* a step of the main loop of a single-threaded client
Commit(S) ==
    /\ CommitState(S)
    /\ UNCHANGED <<lock, thread>>

Raise(S, e) == [S EXCEPT !.exc = e]
Return(S, v) == [S EXCEPT !.ret = v]
\* except <e>: the exception is handled
Caught(S) == [S EXCEPT !.exc = "none"]
\* the statements G after a call that left S1: an exception of the call leaves
\* the method before them
Then(S1, G(_)) == IF S1.exc /= "none" THEN S1 ELSE G(S1)
\* the statements G with the value x of an expression
With(x, G(_)) == G(x)

\* dict operations
DictPut(d, k, v) == (k :> v) @@ d
DictPop(d, k) == [x \in (DOMAIN d) \ {k} |-> d[x]]

(* ---------------------------- connection ------------------------------ *)
throw_exception(S, c) ==
    [S EXCEPT !.conn[c].connected = FALSE, !.exc = "ConnectionError"]

_reset_connection(S, c) ==
    [S EXCEPT !.conn[c] = FreshConn]

\* sock.close(): the peer forgets the session
SockClose(S, c) ==
    [S EXCEPT !.net[c] = NoSession(S.net[c].up, S.net[c].room)]

_create_client_socket(S, c) ==
    IF S.conn[c].sock THEN throw_exception(S, c)
    ELSE IF ~S.net[c].up THEN throw_exception(S, c)
    ELSE [S EXCEPT !.conn[c].sock = TRUE,
                   !.net[c] = NoSession(TRUE, S.net[c].room),
                   !.hist.emitted[c] = << >>,
                   !.hist.ncreated[c] = 0]

send_command(S, c, cmd_type, cmd_args) ==
    [S EXCEPT !.conn[c].outgoing_commands =
                 Append(@, [cmd_type |-> cmd_type, cmd_args |-> cmd_args])]

(* ---------------------- worker command handler and pool ---------------- *)
\* NoopEncoder: the identity on byte strings
encode_data(data) == data
decode_data(data) == data

\* GearmanWorkerCommandHandler.__init__; the attribute `grabbing` (without the
\* underscore) does not exist until a method assigns it
FreshWorkerHandler ==
    [ grabbing |-> "unset", _grabbing |-> FALSE, _waiting |-> FALSE,
      _abilities |-> << >>, _client_id |-> None ]

NoArgs == << >>

\* the callbacks registered by the application: what callback(worker, job)
\* does with the data of a job
Callback(data) ==
    CASE data = DataBytes -> "returns"
      [] data = <<101>> -> "raises"
      [] OTHER -> "raises ConnectionError"

\* history: a terminal report, or the PRE_SLEEP after the job, for job j
Reported(S, j, what) ==
    [S EXCEPT !.worker.reports =
        DictPut(@, j, (IF j \in DOMAIN @ THEN @[j] ELSE << >>) \o <<what>>)]

\* the bytes a pipe of os.pipe() holds before a non-blocking write fails with
\* EAGAIN
PipeCapacity == 2

\* history: a write of command to the notification pipe that found pending
\* bytes and ended with raised
Notified(S, command, pending, raised) ==
    [S EXCEPT !.worker.step.notified =
        @ \cup {[ command |-> command, pending |-> pending, raised |-> raised,
                  connected |-> S.worker.pipe.connected,
                  data |-> S.worker.pipe.data ]}]

\* GearmanWorker._notify, that is _NotificationConnection.send_command:
\* os.write(self.peer_send, command), a TypeError when the pipe is not open;
\* on a full pipe os.write raises os.error and the except clause evaluates
\* errno.EAGAIN, where errno is a name the module never imports
_notify(S, command) ==
    IF ~S.worker.pipe.peer_send THEN Raise(S, "TypeError")
    ELSE IF Len(S.worker.pipe.data) >= PipeCapacity
      THEN Raise(Notified(S, command, Len(S.worker.pipe.data), "NameError"), "NameError")
    ELSE Notified([S EXCEPT !.worker.pipe.data = Append(@, command)],
                  command, Len(S.worker.pipe.data), "none")

RECURSIVE SendCanDo(_, _, _)
SendCanDo(S, c, abilities) ==
    IF abilities = << >> THEN S
    ELSE SendCanDo(send_command(S, c, GEARMAN_COMMAND.CAN_DO, [task |-> Head(abilities)]),
                   c, Tail(abilities))

set_abilities(S, c, abilities) ==
    SendCanDo(send_command([S EXCEPT !.handler[c]._abilities = abilities], c,
                           GEARMAN_COMMAND.RESET_ABILITIES, NoArgs),
              c, abilities)

\* the name protocolGEARMAN_COMMAND_SET_CLIENT_ID is not defined
handler_set_client_id(S, c, client_id) ==
    IF client_id /= None
      THEN Raise([S EXCEPT !.handler[c]._client_id = client_id], "NameError")
    ELSE [S EXCEPT !.handler[c]._client_id = client_id]

_grab_job(S, c) == send_command(S, c, GEARMAN_COMMAND.GRAB_JOB_UNIQ, NoArgs)

_sleep(S, c) == send_command(S, c, GEARMAN_COMMAND.PRE_SLEEP, NoArgs)

\* GearmanWorkerCommandHandler.set_state; the socket of c is a new one
worker_set_state(S, c) ==
    Then(handler_set_client_id(
           [S EXCEPT !.worker.stale = @ \ {c},
                     !.worker.step.setstate =
                        @ \cup {[ conn |-> c,
                                  client_id |-> S.worker.handler_state.client_id,
                                  abilities |-> S.worker.handler_state.abilities ]}],
           c, S.worker.handler_state.client_id),
         LAMBDA T : _sleep(set_abilities(T, c, S.worker.handler_state.abilities), c))

prepare(S, c) ==
    IF S.handler[c]._waiting
      THEN [_sleep(S, c) EXCEPT !.handler[c]._waiting = FALSE,
                                !.worker.step.prepared = @ \cup {c}]
    ELSE S

handler_send_job_complete(S, c, j, job_handle, data) ==
    Reported(send_command(S, c, GEARMAN_COMMAND.WORK_COMPLETE,
                          [job_handle |-> job_handle, data |-> encode_data(data)]),
             j, "WORK_COMPLETE")

handler_send_job_failure(S, c, j, job_handle) ==
    Reported(send_command(S, c, GEARMAN_COMMAND.WORK_FAIL, [job_handle |-> job_handle]),
             j, "WORK_FAIL")

\* data is repr(sys.exc_info()), here the byte string of the job's data
handler_send_job_exception(S, c, j, job_handle, data) ==
    Reported(send_command(S, c, GEARMAN_COMMAND.WORK_EXCEPTION,
                          [job_handle |-> job_handle, data |-> encode_data(data)]),
             j, "WORK_EXCEPTION")

\* GearmanWorker.send_job_complete
send_job_complete(S, c, j, job_handle, data) ==
    _notify(handler_send_job_complete(S, c, j, job_handle, data), "s")

\* GearmanWorker.send_job_exception
send_job_exception(S, c, j, job_handle, data) ==
    _notify(handler_send_job_failure(
              handler_send_job_exception(S, c, j, job_handle, data), c, j, job_handle),
            "s")

\* GearmanGeventPool.reserve
reserve(S) ==
    IF S.worker.concurrency - S.worker.pool.running - S.worker.pool.reserved <= 0
      THEN Return(S, FALSE)
    ELSE Return([S EXCEPT !.worker.pool.reserved = @ + 1], TRUE)

\* GearmanGeventPool.release
release(S) == [S EXCEPT !.worker.pool.reserved = @ - 1]

\* GearmanGeventPool.busy
busy(S) == S.worker.pool.running > 0

\* GearmanGeventPool.spawn: the greenlet of job j starts at _entry
spawn(S, c, j, job_handle, data) ==
    [S EXCEPT !.worker.pool.reserved = @ - 1,
              !.worker.pool.running = @ + 1,
              !.worker.pool.workers =
                  DictPut(@, j, [conn |-> c, handle |-> job_handle, data |-> data])]

\* try: result = callback(...); send_job_complete(...), and the except clause
\* given as the outcome of what was tried
Tried(S, c, j, job_handle, data) ==
    IF Callback(data) = "returns"
      THEN send_job_complete(S, c, j, job_handle, ResultOf(data))
    ELSE Raise([S EXCEPT !.worker.step.raised =
                  @ \cup {[ job |-> j, conn |-> c, pooled |-> S.worker.concurrency > 0 ]}],
               IF Callback(data) = "raises" THEN "Exception" ELSE "ConnectionError")

\* GearmanWorker.process_job for the j-th job the worker is given
process_job(S, c, j, job_handle, task, data) ==
    IF \A i \in 1..Len(S.worker.abilities) : S.worker.abilities[i] /= task
      THEN Raise(S, "KeyError")
    ELSE IF S.worker.concurrency = 0
      THEN With(Tried([S EXCEPT !.worker.assigned = j], c, j, job_handle, data),
                LAMBDA T : IF T.exc /= "none"
                             THEN send_job_exception(Caught(T), c, j, job_handle, data)
                           ELSE T)
    ELSE spawn([S EXCEPT !.worker.assigned = j], c, j, job_handle, data)

\* GearmanGeventPool._entry, run by the greenlet of job j
_entry(S, j) ==
    With(Tried(S, S.worker.pool.workers[j].conn, j, S.worker.pool.workers[j].handle,
               S.worker.pool.workers[j].data),
         LAMBDA T :
           [ Reported(
               Caught(IF T.exc \in {"none", "ConnectionError"} THEN T
                      ELSE send_job_exception(Caught(T), S.worker.pool.workers[j].conn, j,
                                              S.worker.pool.workers[j].handle,
                                              S.worker.pool.workers[j].data)),
               j, "DONE")
             EXCEPT !.worker.pool.reapq = Append(@, j) ])

\* GearmanGeventPool._reap: one turn of the loop that finds a worker_id
_reap(S) ==
    [S EXCEPT !.worker.pool.reapq = Tail(@),
              !.worker.pool.workers = DictPop(@, Head(S.worker.pool.reapq)),
              !.worker.pool.running = @ - 1]

\* GearmanWorker has reserve_thread and release_thread; connection.manager has
\* no attribute reserve
recv_noop(S, c) ==
    IF S.conn[c].write_only THEN Return(S, TRUE)
    ELSE Raise([S EXCEPT !.worker.step.noop = @ \cup
                   {[ conn |-> c,
                      running |-> S.worker.pool.running ]}],
               "AttributeError")

\* connection.manager has no attribute release
recv_no_job(S, c) ==
    Raise([S EXCEPT !.handler[c].grabbing = "False"], "AttributeError")

\* recv_error(self) is called with error_code and error_text
worker_recv_error(S, c, a) ==
    Raise([S EXCEPT !.worker.step.error =
             @ \cup {[ conn |-> c, raised |-> "TypeError",
                       left |-> Len(S.conn[c].incoming_commands) ]}],
          "TypeError")

recv_job_assign_uniq(S, c, a) ==
    IF \A i \in 1..Len(S.handler[c]._abilities) : S.handler[c]._abilities[i] /= a.task
      THEN Raise(S, "AssertionError")
    ELSE Then(process_job(S, c, S.worker.assigned + 1, a.job_handle, a.task,
                          decode_data(a.data)),
              LAMBDA T :
                Return(_sleep(Reported([T EXCEPT !.handler[c].grabbing = "False"],
                                       T.worker.assigned, "PRE_SLEEP"),
                              c),
                       TRUE))

recv_job_assign(S, c, a) == recv_job_assign_uniq(S, c, a)

\* GearmanWorkerCommandHandler.close, called by close() after sock.close()
worker_handler_close(S, c) ==
    IF S.handler[c].grabbing = "unset"
      THEN Raise([S EXCEPT !.worker.stale = @ \cup {c},
                           !.worker.step.closed = @ \cup {[conn |-> c, raised |-> TRUE]}],
                 "AttributeError")
    ELSE IF S.handler[c].grabbing = "True"
      THEN Raise([S EXCEPT !.handler[c].grabbing = "False",
                           !.worker.stale = @ \cup {c},
                           !.worker.step.closed = @ \cup {[conn |-> c, raised |-> TRUE]}],
                 "AttributeError")
    ELSE [S EXCEPT !.worker.step.closed = @ \cup {[conn |-> c, raised |-> FALSE]}]

worker_dispatch_command(S, c, cmd) ==
    CASE cmd.cmd_type = GEARMAN_COMMAND.NOOP -> recv_noop(S, c)
      [] cmd.cmd_type = GEARMAN_COMMAND.NO_JOB -> recv_no_job(S, c)
      [] cmd.cmd_type = GEARMAN_COMMAND.ERROR -> worker_recv_error(S, c, cmd.cmd_args)
      [] cmd.cmd_type = GEARMAN_COMMAND.JOB_ASSIGN -> recv_job_assign(S, c, cmd.cmd_args)
      [] cmd.cmd_type = GEARMAN_COMMAND.JOB_ASSIGN_UNIQ ->
           recv_job_assign_uniq(S, c, cmd.cmd_args)
      [] OTHER -> Raise(S, "UnknownCommandError")

\* self.handler.set_state(**state): GearmanCommandHandler.set_state is pass,
\* the handlers of a worker override it
set_state(S, c) ==
    IF S.worker.constructed THEN worker_set_state(S, c) ELSE S

connect(S, c) ==
    IF S.conn[c].connected THEN throw_exception(S, c)
    ELSE IF S.now < S.conn[c].allowed_connect_time THEN throw_exception(S, c)
    ELSE
      Then(_create_client_socket(
             _reset_connection(
               [S EXCEPT !.conn[c].allowed_connect_time = S.now + connect_cooldown_seconds],
               c),
             c),
           LAMBDA S3 : Then(set_state(S3, c),
                            LAMBDA S4 : [S4 EXCEPT !.conn[c].connected = TRUE]))

fileno(S, c) ==
    IF ~S.conn[c].sock THEN throw_exception(S, c) ELSE S

writable(S, c) ==
    S.conn[c].connected
      /\ (S.conn[c].outgoing_commands /= << >> \/ S.conn[c].outgoing_buffer /= << >>)

readable(S, c) == S.conn[c].connected /\ ~S.conn[c].write_only

\* self.handler.close(): GearmanCommandHandler.close is pass, the handlers of
\* a worker override it
handler_close(S, c) ==
    IF S.worker.constructed THEN worker_handler_close(S, c) ELSE S

close(S, c) ==
    Then(handler_close(IF S.conn[c].sock THEN SockClose(S, c) ELSE S, c),
         LAMBDA S1 : _reset_connection(S1, c))

\* the packed form of a command, << >> paired with err when the type is unknown
_pack_command(cmd) ==
    IF cmd.cmd_type \notin KnownCommands THEN [err |-> "ProtocolError", data |-> << >>]
    ELSE IF cmd.cmd_type = GEARMAN_COMMAND.TEXT_COMMAND
      THEN [err |-> "none", data |-> pack_text_command(cmd.cmd_type, cmd.cmd_args)]
    ELSE [err |-> "none", data |-> pack_binary_command(cmd.cmd_type, cmd.cmd_args, MAGIC_REQ)]

\* the while loop of send_commands_to_buffer: pops and packs every queued
\* command onto packed_data; a ProtocolError leaves the loop with the commands
\* already popped gone
RECURSIVE PackQueued(_, _, _)
PackQueued(S, c, packed_data) ==
    IF S.conn[c].outgoing_commands = << >>
      THEN [S EXCEPT !.conn[c].outgoing_buffer = packed_data]
    ELSE
      With(_pack_command(Head(S.conn[c].outgoing_commands)),
           LAMBDA p :
             IF p.err /= "none"
               THEN Raise([S EXCEPT !.conn[c].outgoing_commands = Tail(@)], p.err)
             ELSE PackQueued([S EXCEPT !.conn[c].outgoing_commands = Tail(@)], c,
                             packed_data \o p.data))

\* variant: the buffer is replaced by the newly packed commands
DrainLocked_replacing(S, c, packed_data) ==
    IF S.conn[c].outgoing_commands = << >> THEN S
    ELSE PackQueued(S, c, << >>)

\* send_commands_to_buffer from `with self.manager.lock` on; packed_data
\* holds the outgoing buffer as it was read before the lock was taken
DrainLocked(S, c, packed_data) ==
    IF S.conn[c].outgoing_commands = << >> THEN S
    ELSE PackQueued(S, c, packed_data)

send_commands_to_buffer(S, c) ==
    DrainLocked(S, c, S.conn[c].outgoing_buffer)

\* sock.send(buffer): the bytes the socket takes now, -1 for socket.error
SockSend(S, c) ==
    IF S.net[c].err \/ S.net[c].eof THEN -1
    ELSE IF Len(S.conn[c].outgoing_buffer) < S.net[c].room
      THEN Len(S.conn[c].outgoing_buffer)
    ELSE S.net[c].room

\* variant: the buffer is emptied whatever the socket took
send_data_to_socket_emptying(S, c) ==
    IF ~S.conn[c].connected THEN throw_exception(S, c)
    ELSE IF S.conn[c].outgoing_buffer = << >> THEN Return(S, 0)
    ELSE
      With(SockSend(S, c),
           LAMBDA bytes_sent :
             IF bytes_sent = -1 THEN throw_exception(S, c)
             ELSE IF bytes_sent = 0 THEN throw_exception(S, c)
             ELSE Return([S EXCEPT !.net[c].c2s =
                                     @ \o SubSeq(S.conn[c].outgoing_buffer, 1, bytes_sent),
                                   !.conn[c].outgoing_buffer = << >>],
                         0))

\* ret is the remaining size of the output buffer
send_data_to_socket(S, c) ==
    IF ~S.conn[c].connected THEN throw_exception(S, c)
    ELSE IF S.conn[c].outgoing_buffer = << >> THEN Return(S, 0)
    ELSE
      With(SockSend(S, c),
           LAMBDA bytes_sent :
             IF bytes_sent = -1 THEN throw_exception(S, c)
             ELSE IF bytes_sent = 0 THEN throw_exception(S, c)
             ELSE Return([S EXCEPT !.net[c].c2s =
                                     @ \o SubSeq(S.conn[c].outgoing_buffer, 1, bytes_sent),
                                   !.conn[c].outgoing_buffer = SubSeq(@, bytes_sent + 1, Len(@))],
                         Len(S.conn[c].outgoing_buffer) - bytes_sent))

\* variant: what was received replaces the incoming buffer
read_data_from_socket_replacing(S, c) ==
    IF ~S.conn[c].connected \/ S.net[c].err \/ S.net[c].s2c = << >> THEN throw_exception(S, c)
    ELSE [S EXCEPT !.conn[c].incoming_buffer = S.net[c].s2c, !.net[c].s2c = << >>]

\* sock.recv(n) and the append to the incoming buffer
read_data_from_socket(S, c) ==
    IF ~S.conn[c].connected THEN throw_exception(S, c)
    ELSE IF S.net[c].err THEN throw_exception(S, c)
    ELSE IF S.net[c].s2c = << >> THEN throw_exception(S, c)
    ELSE
      LET avail == S.net[c].s2c
          n == IF Len(avail) < bytes_to_read THEN Len(avail) ELSE bytes_to_read
      IN  [S EXCEPT !.conn[c].incoming_buffer = @ \o SubSeq(avail, 1, n),
                    !.net[c].s2c = SubSeq(avail, n + 1, Len(avail))]

_unpack_command(given_buffer) ==
    IF given_buffer = << >> THEN NotYet
    ELSE IF given_buffer[1] = NULL_CHAR THEN parse_binary_command(given_buffer, MAGIC_RES)
    ELSE parse_text_command(given_buffer)

(* ------------------------ client command handler ---------------------- *)
get_background_cmd_type(background, priority) ==
    IF background
      THEN CASE priority = PRIORITY_HIGH -> GEARMAN_COMMAND.SUBMIT_JOB_HIGH_BG
             [] priority = PRIORITY_LOW -> GEARMAN_COMMAND.SUBMIT_JOB_LOW_BG
             [] OTHER -> GEARMAN_COMMAND.SUBMIT_JOB_BG
      ELSE CASE priority = PRIORITY_HIGH -> GEARMAN_COMMAND.SUBMIT_JOB_HIGH
             [] priority = PRIORITY_LOW -> GEARMAN_COMMAND.SUBMIT_JOB_LOW
             [] OTHER -> GEARMAN_COMMAND.SUBMIT_JOB

\* history: request r went from its state to state `to` in operation `by` of
\* the handler of connection c
Edge(S, r, to, by, c) ==
    [ r |-> r, from |-> S.req[r].state, to |-> to, by |-> by, conn |-> c,
      bound |-> S.req[r].handler ]

\* _assert_request_state raises
StateMismatch(S, r, expected_state) == S.req[r].state /= expected_state

handler_send_job_request(S, c, r) ==
    IF StateMismatch(S, r, JOB_UNKNOWN) THEN Raise(S, "InvalidClientState")
    ELSE
      LET cmd_type == get_background_cmd_type(S.req[r].background, S.req[r].priority)
          S1 == send_command(S, c, cmd_type,
                    [task |-> TaskBytes, unique |-> UniqueOf(r), data |-> encode_data(DataBytes)])
      IN  [S1 EXCEPT !.req[r].state = JOB_PENDING,
                     !.handler[c].request_queue = Append(@, r),
                     !.hist.edges = @ \cup {Edge(S, r, JOB_PENDING, "send_job_request", c)},
                     !.hist.emitted[c] = Append(@, r),
                     !.hist.submits[r] = @ + 1]

send_get_status_of_job(S, c, r) ==
    LET S1 == [S EXCEPT !.handler[c].request_trace = DictPut(@, S.req[r].handle, r)]
    IN  send_command(S1, c, GEARMAN_COMMAND.GET_STATUS, [job_handle |-> S.req[r].handle])

\* GearmanClientCommandHandler.on_io_error: every request the handler still
\* refers to goes back to UNKNOWN
client_on_io_error(S, c) ==
    LET h == S.handler[c]
        hit == { h.request_queue[i] : i \in 1..Len(h.request_queue) }
                 \cup { h.request_trace[k] : k \in DOMAIN h.request_trace }
    IN  [S EXCEPT !.req = [r \in Reqs |-> IF r \in hit
                                            THEN [S.req[r] EXCEPT !.state = JOB_UNKNOWN]
                                            ELSE S.req[r]],
                  !.hist.edges = @ \cup { Edge(S, r, JOB_UNKNOWN, "on_io_error", c) :
                                           r \in { x \in hit : S.req[x].state /= JOB_UNKNOWN } }]

recv_job_created(S, c, a) ==
    IF S.handler[c].request_queue = << >> THEN Raise(S, "InvalidClientState")
    ELSE
      LET r == Head(S.handler[c].request_queue)
          S1 == [S EXCEPT !.handler[c].request_queue = Tail(@)]
          k == S.hist.ncreated[c] + 1
          em == S.hist.emitted[c]
      IN  IF StateMismatch(S1, r, JOB_PENDING) THEN Raise(S1, "InvalidClientState")
          ELSE Return(
                 [S1 EXCEPT !.req[r].handle = a.job_handle,
                            !.req[r].state = JOB_CREATED,
                            !.handler[c].request_trace = DictPut(@, a.job_handle, r),
                            !.hist.ncreated[c] = k,
                            !.hist.edges = @ \cup {Edge(S, r, JOB_CREATED, "recv_job_created", c)},
                            !.hist.created = @ \cup {[r |-> r, submits |-> S.hist.submits[r]]},
                            !.hist.bound = [actual |-> r, k |-> k,
                                            expected |-> IF k <= Len(em) THEN em[k] ELSE 0]],
                 TRUE)

\* request = self.request_trace[job_handle], then the state assertion
Lookup(S, c, job_handle) ==
    IF job_handle \notin DOMAIN S.handler[c].request_trace THEN "KeyError"
    ELSE IF StateMismatch(S, S.handler[c].request_trace[job_handle], JOB_CREATED)
      THEN "InvalidClientState"
    ELSE "none"

recv_work_data(S, c, a) ==
    LET r == S.handler[c].request_trace[a.job_handle]
    IN  IF Lookup(S, c, a.job_handle) /= "none" THEN Raise(S, Lookup(S, c, a.job_handle))
        ELSE Return([S EXCEPT !.req[r].data_updates = Append(@, decode_data(a.data))], TRUE)

recv_work_warning(S, c, a) ==
    LET r == S.handler[c].request_trace[a.job_handle]
    IN  IF Lookup(S, c, a.job_handle) /= "none" THEN Raise(S, Lookup(S, c, a.job_handle))
        ELSE Return([S EXCEPT !.req[r].warning_updates = Append(@, decode_data(a.data))], TRUE)

recv_work_complete(S, c, a) ==
    LET r == S.handler[c].request_trace[a.job_handle]
    IN  IF Lookup(S, c, a.job_handle) /= "none" THEN Raise(S, Lookup(S, c, a.job_handle))
        ELSE Return([S EXCEPT !.req[r].result = decode_data(a.data),
                              !.req[r].state = JOB_COMPLETE,
                              !.hist.edges = @ \cup
                                 {Edge(S, r, JOB_COMPLETE, "recv_work_complete", c)},
                              !.handler[c].request_trace = DictPop(@, S.req[r].handle)], TRUE)

recv_work_fail(S, c, a) ==
    LET r == S.handler[c].request_trace[a.job_handle]
    IN  IF Lookup(S, c, a.job_handle) /= "none" THEN Raise(S, Lookup(S, c, a.job_handle))
        ELSE Return([S EXCEPT !.req[r].state = JOB_FAILED,
                              !.hist.edges = @ \cup {Edge(S, r, JOB_FAILED, "recv_work_fail", c)},
                              !.handler[c].request_trace = DictPop(@, S.req[r].handle)], TRUE)

recv_work_exception(S, c, a) ==
    LET r == S.handler[c].request_trace[a.job_handle]
    IN  IF Lookup(S, c, a.job_handle) /= "none" THEN Raise(S, Lookup(S, c, a.job_handle))
        ELSE Return([S EXCEPT !.req[r].exception = decode_data(a.data)], TRUE)

recv_work_status(S, c, a) ==
    LET r == S.handler[c].request_trace[a.job_handle]
    IN  IF Lookup(S, c, a.job_handle) /= "none" THEN Raise(S, Lookup(S, c, a.job_handle))
        ELSE Return([S EXCEPT !.req[r].status =
                        [handle |-> a.job_handle, known |-> TRUE, running |-> TRUE,
                         numerator |-> a.numerator, denominator |-> a.denominator,
                         time_received |-> S.now]], TRUE)

recv_status_res(S, c, a) ==
    IF a.job_handle \notin DOMAIN S.handler[c].request_trace THEN Raise(S, "KeyError")
    ELSE
      LET r == S.handler[c].request_trace[a.job_handle]
          job_known == (a.known = <<49>>)
          S1 == [S EXCEPT !.req[r].status =
                    [handle |-> a.job_handle, known |-> job_known,
                     running |-> (a.running = <<49>>),
                     numerator |-> a.numerator, denominator |-> a.denominator,
                     time_received |-> S.now]]
      IN  Return(IF job_known THEN S1
                 ELSE [S1 EXCEPT !.handler[c].request_trace = DictPop(@, S.req[r].handle)],
                 TRUE)

\* GearmanConnectionManager.on_server_error: logs and returns False
on_server_error(S) == Return(S, FALSE)

recv_error(S, c, a) == on_server_error(S)

\* the recv_* method of the client handler for a command, or the error raised
client_dispatch_command(S, c, cmd) ==
    LET t == cmd.cmd_type
        a == cmd.cmd_args
    IN  CASE t = GEARMAN_COMMAND.JOB_CREATED -> recv_job_created(S, c, a)
          [] t = GEARMAN_COMMAND.WORK_DATA -> recv_work_data(S, c, a)
          [] t = GEARMAN_COMMAND.WORK_WARNING -> recv_work_warning(S, c, a)
          [] t = GEARMAN_COMMAND.WORK_COMPLETE -> recv_work_complete(S, c, a)
          [] t = GEARMAN_COMMAND.WORK_FAIL -> recv_work_fail(S, c, a)
          [] t = GEARMAN_COMMAND.WORK_EXCEPTION -> recv_work_exception(S, c, a)
          [] t = GEARMAN_COMMAND.WORK_STATUS -> recv_work_status(S, c, a)
          [] t = GEARMAN_COMMAND.STATUS_RES -> recv_status_res(S, c, a)
          [] t = GEARMAN_COMMAND.ERROR -> recv_error(S, c, a)
          [] OTHER -> Raise(S, "UnknownCommandError")

\* self.handler.on_io_error(): GearmanCommandHandler.on_io_error is pass, the
\* handlers of a client override it
handler_on_io_error(S, c) ==
    IF S.worker.constructed THEN S ELSE client_on_io_error(S, c)

(* ------------------------ admin command handler ----------------------- *)
\* protocol.GEARMAN_ADMIN_COMMAND_*: the text of each command
GEARMAN_ADMIN_COMMAND ==
    [ STATUS |-> <<115, 116, 97, 116, 117, 115>>,
      VERSION |-> <<118, 101, 114, 115, 105, 111, 110>>,
      WORKERS |-> <<119, 111, 114, 107, 101, 114, 115>>,
      MAXQUEUE |-> <<109, 97, 120, 113, 117, 101, 117, 101>>,
      SHUTDOWN |-> <<115, 104, 117, 116, 100, 111, 119, 110>> ]

GEARMAN_ALLOWED_ADMIN_COMMANDS ==
    { GEARMAN_ADMIN_COMMAND[k] : k \in DOMAIN GEARMAN_ADMIN_COMMAND }

STATUS_RESPONSE_FIELDS == 4
WORKERS_RESPONSE_FIELDS == 4

\* the bytes '.', '\t', ' ' and ':'
DOT == 46
TAB == 9
SPACE == 32
COLON == 58

\* GearmanAdminCommandHandler.__init__
FreshAdminHandler ==
    [ _sent_commands |-> << >>, _recv_responses |-> << >>,
      _status_response |-> << >>, _workers_response |-> << >> ]

\* the handler of c is a GearmanAdminCommandHandler
IsAdminHandler(S, c) == "_sent_commands" \in DOMAIN S.handler[c]

\* raw_text.split(sep)
RECURSIVE SplitOn(_, _)
SplitOn(s, sep) ==
    LET i == IndexOf(s, sep, 1)
    IN  IF i = 0 THEN << s >>
        ELSE << SubSeq(s, 1, i - 1) >> \o SplitOn(SubSeq(s, i + 1, Len(s)), sep)

\* command_line.startswith(allowed_command)
StartsWith(s, prefix) ==
    Len(prefix) <= Len(s) /\ SubSeq(s, 1, Len(prefix)) = prefix

\* int(token) for a token of decimal digits; IsInt says whether int() accepts it
IsInt(token) == token /= << >> /\ \A i \in 1..Len(token) : token[i] \in 48..57
RECURSIVE ToInt(_)
ToInt(token) ==
    IF token = << >> THEN 0
    ELSE ToInt(SubSeq(token, 1, Len(token) - 1)) * 10 + (token[Len(token)] - 48)

\* response_ready
response_ready(S, c) == S.handler[c]._recv_responses /= << >>

\* variant: a missing response is answered with the command alone
pop_response_lenient(S, c) ==
    IF S.handler[c]._sent_commands = << >> THEN Raise(S, "InvalidAdminClientState")
    ELSE IF S.handler[c]._recv_responses = << >>
      THEN Return([S EXCEPT !.handler[c]._sent_commands = Tail(@)],
                  << Head(S.handler[c]._sent_commands), << >> >>)
    ELSE Return([S EXCEPT !.handler[c]._sent_commands = Tail(@),
                          !.handler[c]._recv_responses = Tail(@)],
                << Head(S.handler[c]._sent_commands), Head(S.handler[c]._recv_responses) >>)

\* pop_response: ret is (sent_command, recv_response)
pop_response(S, c) ==
    IF S.handler[c]._sent_commands = << >> \/ S.handler[c]._recv_responses = << >>
      THEN Raise(S, "InvalidAdminClientState")
    ELSE Return([S EXCEPT !.handler[c]._sent_commands = Tail(@),
                          !.handler[c]._recv_responses = Tail(@)],
                << Head(S.handler[c]._sent_commands), Head(S.handler[c]._recv_responses) >>)

send_text_command(S, c, command_line) ==
    IF \A a \in GEARMAN_ALLOWED_ADMIN_COMMANDS : ~StartsWith(command_line, a)
      THEN Raise(S, "ProtocolError")
    ELSE send_command(
           [S EXCEPT !.handler[c]._sent_commands =
               Append(@, CHOOSE a \in GEARMAN_ALLOWED_ADMIN_COMMANDS :
                            StartsWith(command_line, a))],
           c, GEARMAN_COMMAND.TEXT_COMMAND, [raw_text |-> command_line \o <<NEWLINE>>])

\* variant: the rows stay in the accumulator after the response is pushed
recv_server_status_keeping(S, c, raw_text) ==
    IF raw_text = <<DOT>>
      THEN Return([S EXCEPT !.handler[c]._recv_responses =
                               Append(@, S.handler[c]._status_response)],
                  FALSE)
    ELSE
      With(SplitOn(raw_text, TAB),
           LAMBDA token_ls :
             IF Len(token_ls) /= STATUS_RESPONSE_FIELDS THEN Raise(S, "ProtocolError")
             ELSE IF \E i \in 2..4 : ~IsInt(token_ls[i]) THEN Raise(S, "ValueError")
             ELSE Return([S EXCEPT !.handler[c]._status_response =
                            Append(@, [ task |-> token_ls[1],
                                        queued |-> ToInt(token_ls[2]),
                                        running |-> ToInt(token_ls[3]),
                                        workers |-> ToInt(token_ls[4]) ])],
                         TRUE))

recv_server_status(S, c, raw_text) ==
    IF raw_text = <<DOT>>
      THEN Return([S EXCEPT !.handler[c]._recv_responses =
                               Append(@, S.handler[c]._status_response),
                            !.handler[c]._status_response = << >>],
                  FALSE)
    ELSE
      With(SplitOn(raw_text, TAB),
           LAMBDA token_ls :
             IF Len(token_ls) /= STATUS_RESPONSE_FIELDS THEN Raise(S, "ProtocolError")
             ELSE IF \E i \in 2..4 : ~IsInt(token_ls[i]) THEN Raise(S, "ValueError")
             ELSE Return([S EXCEPT !.handler[c]._status_response =
                            Append(@, [ task |-> token_ls[1],
                                        queued |-> ToInt(token_ls[2]),
                                        running |-> ToInt(token_ls[3]),
                                        workers |-> ToInt(token_ls[4]) ])],
                         TRUE))

recv_server_workers(S, c, raw_text) ==
    IF raw_text = <<DOT>>
      THEN Return([S EXCEPT !.handler[c]._recv_responses =
                               Append(@, S.handler[c]._workers_response),
                            !.handler[c]._workers_response = << >>],
                  FALSE)
    ELSE
      With(SplitOn(raw_text, SPACE),
           LAMBDA token_ls :
             IF Len(token_ls) < WORKERS_RESPONSE_FIELDS THEN Raise(S, "ProtocolError")
             ELSE IF token_ls[4] /= <<COLON>> THEN Raise(S, "ProtocolError")
             ELSE Return([S EXCEPT !.handler[c]._workers_response =
                            Append(@, [ fd |-> token_ls[1], ip |-> token_ls[2],
                                        client_id |-> token_ls[3],
                                        tasks |-> SubSeq(token_ls, 5, Len(token_ls)) ])],
                         TRUE))

recv_server_version(S, c, raw_text) ==
    Return([S EXCEPT !.handler[c]._recv_responses = Append(@, raw_text)], FALSE)

\* recv_text_command: getattr(self, 'recv_server_%s' % self._sent_commands[0])
recv_text_command(S, c, raw_text) ==
    IF S.handler[c]._sent_commands = << >> THEN Raise(S, "InvalidAdminClientState")
    ELSE
      With(Head(S.handler[c]._sent_commands),
           LAMBDA cmd_type :
             CASE cmd_type = GEARMAN_ADMIN_COMMAND.STATUS -> recv_server_status(S, c, raw_text)
               [] cmd_type = GEARMAN_ADMIN_COMMAND.WORKERS -> recv_server_workers(S, c, raw_text)
               [] cmd_type = GEARMAN_ADMIN_COMMAND.VERSION -> recv_server_version(S, c, raw_text)
               [] OTHER -> Raise(S, "ValueError"))

\* dispatch_command of an admin handler
admin_dispatch_command(S, c, cmd) ==
    CASE cmd.cmd_type = GEARMAN_COMMAND.TEXT_COMMAND ->
           recv_text_command(S, c, cmd.cmd_args.raw_text)
      [] cmd.cmd_type = GEARMAN_COMMAND.ECHO_RES ->
           Return([S EXCEPT !.handler[c]._recv_responses = Append(@, cmd.cmd_args.data)],
                  FALSE)
      [] cmd.cmd_type = GEARMAN_COMMAND.ERROR -> Return(S, FALSE)
      [] OTHER -> Raise(S, "UnknownCommandError")

\* GearmanCommandHandler.dispatch_command: getattr(self, 'recv_...')
dispatch_command(S, c, cmd) ==
    IF IsAdminHandler(S, c) THEN admin_dispatch_command(S, c, cmd)
    ELSE IF S.worker.constructed THEN worker_dispatch_command(S, c, cmd)
    ELSE client_dispatch_command(S, c, cmd)

RECURSIVE fetch_commands(_, _)
fetch_commands(S, c) ==
    IF S.conn[c].incoming_commands = << >> THEN S
    ELSE
      Then(dispatch_command([S EXCEPT !.conn[c].incoming_commands = Tail(@)], c,
                            Head(S.conn[c].incoming_commands)),
           LAMBDA S1 : IF S1.ret THEN fetch_commands(S1, c) ELSE S1)

\* the while loop of read_commands_from_buffer
RECURSIVE UnpackBuffered(_, _)
UnpackBuffered(S, c) ==
    With(_unpack_command(S.conn[c].incoming_buffer),
         LAMBDA p :
           IF p.err /= "none" THEN Raise(S, p.err)
           ELSE IF p.cmd_len = 0 THEN S
           ELSE UnpackBuffered(
                  [S EXCEPT !.conn[c].incoming_commands =
                               Append(@, [cmd_type |-> p.cmd_type, cmd_args |-> p.cmd_args]),
                            !.conn[c].incoming_buffer = SubSeq(@, p.cmd_len + 1, Len(@)),
                            !.hist.enqueued =
                               IF S.hist.served = << >> THEN @
                               ELSE Append(@, [cmd_type |-> p.cmd_type,
                                               cmd_args |-> p.cmd_args])],
                  c))

read_commands_from_buffer(S, c) ==
    Then(UnpackBuffered(S, c), LAMBDA S1 : fetch_commands(S1, c))

(* -------------------------- connection manager ------------------------ *)
\* establish_connection that hands the manager's state to the handler of a
\* connected connection again
establish_connection_restating(S, c) ==
    IF S.conn[c].connected THEN set_state([S EXCEPT !.hist.kept = @ \cup {c}], c)
    ELSE connect(S, c)

\* the history keeps the connections that were found connected
establish_connection(S, c) ==
    IF S.conn[c].connected THEN [S EXCEPT !.hist.kept = @ \cup {c}] ELSE connect(S, c)

handle_read(S, c) ==
    Then(read_data_from_socket(S, c), LAMBDA S1 : read_commands_from_buffer(S1, c))

handle_write(S, c) ==
    Then(send_commands_to_buffer(S, c), LAMBDA S1 : send_data_to_socket(S1, c))

\* connection.on_io_error() and then connection.close(); the history keeps the
\* connections handle_error ran for
handle_error(S, c) ==
    close(handler_on_io_error([S EXCEPT !.hist.handled = Append(@, c)], c), c)

\* try: handle(connection) / except ConnectionError: handle_error; broken.add
Guarded(S1, c) ==
    IF S1.exc = "ConnectionError"
      THEN [handle_error(Caught(S1), c) EXCEPT !.broken = @ \cup {c}]
    ELSE S1

\* one for-loop of _process, over the connections in the order the set yields them
RECURSIVE ProcessReads(_, _)
ProcessReads(S, order) ==
    IF S.exc /= "none" \/ order = << >> THEN S
    ELSE ProcessReads(Guarded(handle_read(S, Head(order)), Head(order)), Tail(order))

RECURSIVE ProcessWrites(_, _)
ProcessWrites(S, order) ==
    IF S.exc /= "none" \/ order = << >> THEN S
    ELSE ProcessWrites(Guarded(handle_write(S, Head(order)), Head(order)), Tail(order))

RECURSIVE ProcessErrors(_, _)
ProcessErrors(S, order) ==
    IF S.exc /= "none" \/ order = << >> THEN S
    ELSE ProcessErrors(handle_error(S, Head(order)), Tail(order))

_process(S, readable_ls, writable_ls, exceptional_ls) ==
    ProcessErrors(ProcessWrites(ProcessReads(S, readable_ls), writable_ls), exceptional_ls)

(* ------------------------------ client -------------------------------- *)
\* the orders in which a set can be listed (random.shuffle, set iteration)
Orders(set) ==
    { o \in [1..Cardinality(set) -> set] : \A i, j \in 1..Cardinality(set) : o[i] = o[j] => i = j }

\* deque.rotate(-n)
RotateLeft(dq, n) ==
    IF dq = << >> THEN dq
    ELSE [i \in 1..Len(dq) |-> dq[((i - 1 + n) % Len(dq)) + 1]]

\* the for loop of _create_handler from position i: ret is the position of the
\* first connection that could be established, 0 when there is none
RECURSIVE TryConnections(_, _, _)
TryConnections(S, connections, i) ==
    IF i > Len(connections) THEN Return(S, 0)
    ELSE
      With(establish_connection(S, connections[i]),
           LAMBDA S1 :
             IF S1.exc = "ConnectionError" THEN TryConnections(Caught(S1), connections, i + 1)
             ELSE Return(S1, i))

\* variant: the last connection of the deque that can be established
_create_handler_last(S, r, shuffled_ls) ==
    LET connections == IF S.request_trace[r] = << >> THEN shuffled_ls ELSE S.request_trace[r]
        rev == [i \in 1..Len(connections) |-> connections[Len(connections) + 1 - i]]
    IN  With(TryConnections([S EXCEPT !.request_trace[r] = connections], rev, 1),
             LAMBDA S1 :
               IF S1.ret = 0 THEN Raise(S1, "ServerUnavailable")
               ELSE Return(S1, rev[S1.ret]))

\* ret is the connection whose handler was chosen
_create_handler(S, r, shuffled_ls) ==
    LET connections == IF S.request_trace[r] = << >> THEN shuffled_ls ELSE S.request_trace[r]
    IN  With(TryConnections([S EXCEPT !.request_trace[r] = connections], connections, 1),
             LAMBDA S1 :
               IF S1.ret = 0 THEN Raise(S1, "ServerUnavailable")
               ELSE Return([S1 EXCEPT !.request_trace[r] = RotateLeft(connections, S1.ret - 1)],
                           connections[S1.ret]))

\* history: send_job_request of request r started in S, _create_handler left
\* S1 and the call left T; can holds the connections establish_connection
\* succeeds on in S
Chosen(S, r, shuffled_ls, S1, T) ==
    [T EXCEPT !.hist.chosen =
        @ \cup {[ r |-> r,
                  deque |-> IF S.request_trace[r] = << >> THEN shuffled_ls
                            ELSE S.request_trace[r],
                  can |-> { c \in Conns : establish_connection(S, c).exc = "none" },
                  exc |-> S1.exc,
                  ret |-> S1.ret,
                  state |-> T.req[r].state,
                  attempts |-> T.req[r].connect_attempts - S.req[r].connect_attempts,
                  sent |-> { c \in Conns :
                               T.conn[c].outgoing_commands /= S.conn[c].outgoing_commands } ]}]

\* variant: submits without looking at connect_attempts
client_send_job_request_unbounded(S, r, shuffled_ls) ==
    Then(_create_handler(S, r, shuffled_ls),
         LAMBDA S1 :
           handler_send_job_request(
             [S1 EXCEPT !.req[r].handler = S1.ret,
                        !.req[r].connect_attempts = @ + 1,
                        !.req[r].timed_out = FALSE],
             S1.ret, r))

client_send_job_request(S, r, shuffled_ls) ==
    IF S.req[r].connect_attempts >= S.req[r].max_connect_attempts
      THEN [Raise(S, "ExceededConnectionAttempts") EXCEPT
              !.hist.refused = @ \cup {[r |-> r, state |-> S.req[r].state,
                                        submits |-> S.hist.submits[r]]}]
    ELSE
      With(_create_handler(S, r, shuffled_ls),
           LAMBDA S1 :
             Chosen(S, r, shuffled_ls, S1,
                    Then(S1, LAMBDA S2 :
                      handler_send_job_request(
                        [S2 EXCEPT !.req[r].handler = S2.ret,
                                   !.req[r].connect_attempts = @ + 1,
                                   !.req[r].timed_out = FALSE],
                        S2.ret, r))))

\* GearmanJobRequest.complete; `state in (JOB_CREATED)` tests for a substring
Letters(state) ==
    CASE state = JOB_UNKNOWN -> <<"U", "N", "K", "N", "O", "W", "N">>
      [] state = JOB_PENDING -> <<"P", "E", "N", "D", "I", "N", "G">>
      [] state = JOB_CREATED -> <<"C", "R", "E", "A", "T", "E", "D">>
      [] state = JOB_FAILED -> <<"F", "A", "I", "L", "E", "D">>
      [] state = JOB_COMPLETE -> <<"C", "O", "M", "P", "L", "E", "T", "E">>

IsSubstring(x, y) ==
    \E i \in 0..(Len(y) - Len(x)) : SubSeq(y, i + 1, i + Len(x)) = x

\* variant: CREATED completes a foreground request too
complete_created(request) ==
    request.state \in {JOB_CREATED, JOB_FAILED, JOB_COMPLETE}

complete(request) ==
    LET background_complete ==
            request.background /\ IsSubstring(Letters(request.state), Letters(JOB_CREATED))
        foreground_complete ==
            ~request.background /\ request.state \in {JOB_FAILED, JOB_COMPLETE}
    IN  background_complete \/ foreground_complete

\* the predicate of _blocking_submit: submits what is UNKNOWN, in list order
RECURSIVE SubmitUnknown(_, _, _)
SubmitUnknown(S, request_ls, shuffles) ==
    IF S.exc /= "none" \/ request_ls = << >> THEN S
    ELSE
      SubmitUnknown(IF S.req[Head(request_ls)].state = JOB_UNKNOWN
                      THEN client_send_job_request(S, Head(request_ls),
                                                   shuffles[Head(request_ls)])
                      ELSE S,
                    Tail(request_ls), shuffles)

has_pending_jobs(S, request_ls, shuffles) ==
    Then(SubmitUnknown(S, request_ls, shuffles),
         LAMBDA S1 :
           Return(S1, \E i \in 1..Len(request_ls) : S1.req[request_ls[i]].state = JOB_PENDING))

has_incomplete_jobs(S, request_ls) ==
    Return(S, \E i \in 1..Len(request_ls) :
                ~complete(S.req[request_ls[i]]) /\ S.req[request_ls[i]].state /= JOB_UNKNOWN)

\* is_status_changed(request) raises KeyError when a key is missing
StatusKeysMissing(request) ==
    ~({"time_received", "last_time_received"} \subseteq DOMAIN request.status)

is_status_changed(request) ==
    request.status["time_received"] /= request.status["last_time_received"]

\* the first request for which the predicate reads the status decides
RECURSIVE has_untouched_jobs(_, _)
has_untouched_jobs(S, request_ls) ==
    IF request_ls = << >> THEN Return(S, FALSE)
    ELSE
      LET request == S.req[Head(request_ls)]
      IN  IF request.state = JOB_UNKNOWN THEN has_untouched_jobs(S, Tail(request_ls))
          ELSE IF StatusKeysMissing(request) THEN Raise(S, "KeyError")
          ELSE IF ~is_status_changed(request) THEN Return(S, TRUE)
          ELSE has_untouched_jobs(S, Tail(request_ls))

\* before_poll / after_poll of the poll the call is in
PollPredicate(S, fn, request_ls, shuffles) ==
    CASE fn = "blocking_submit" -> has_pending_jobs(S, request_ls, shuffles)
      [] fn = "wait_until_complete" -> has_incomplete_jobs(S, request_ls)
      [] fn = "wait_for_statuses" -> has_untouched_jobs(S, request_ls)

\* Stopwatch.get_time_remaining() == 0.0
Expired(deadline, t) == deadline /= 0 /\ t >= deadline

\* what the poller reports for the registered connections
ReadReady(S, c) == readable(S, c) /\ (S.net[c].s2c /= << >> \/ S.net[c].eof)
WriteReady(S, c) == writable(S, c) /\ ~S.net[c].err
ErrorReady(S, c) == S.conn[c].sock /\ S.net[c].err

\* one iteration of the while loop of poll, from _register to after_poll;
\* ret is workable, broken holds what left the working set
PollBody(S, cl, readable_ls, writable_ls, exceptional_ls, shuffles) ==
    LET nosock == { c \in cl.workset : ~S.conn[c].sock }
    IN  IF nosock /= {} THEN throw_exception(S, CHOOSE c \in nosock : TRUE)
        ELSE Then(_process(S, readable_ls, writable_ls, exceptional_ls),
                  LAMBDA S1 :
                    PollPredicate(
                      [S1 EXCEPT !.broken =
                          @ \cup { exceptional_ls[i] : i \in 1..Len(exceptional_ls) }],
                      cl.fn, cl.reqs, shuffles))

\* variant: marks every request that is not CREATED
mark_timed_out_uncreated(S, fn, r) ==
    [S EXCEPT !.req[r].timed_out = (S.req[r].state /= JOB_CREATED)]

\* the marking of one request when the poll of fn has returned
mark_timed_out(S, fn, r) ==
    LET request == S.req[r]
    IN  CASE fn = "blocking_submit" ->
               [S EXCEPT !.req[r].timed_out = (request.state = JOB_PENDING)]
          [] fn = "wait_until_complete" ->
               [S EXCEPT !.req[r].timed_out = ~complete(request),
                         !.request_trace[r] = IF complete(request) THEN << >> ELSE @]
          [] fn = "wait_for_statuses" ->
               IF StatusKeysMissing(request) THEN Raise(S, "KeyError")
               ELSE [S EXCEPT !.req[r].timed_out = ~is_status_changed(request)]

\* for request in request_ls: request.timed_out = ...
RECURSIVE MarkTimedOut(_, _, _)
MarkTimedOut(S, fn, request_ls) ==
    IF S.exc /= "none" \/ request_ls = << >> THEN S
    ELSE MarkTimedOut(mark_timed_out(S, fn, Head(request_ls)), fn, Tail(request_ls))

(* ----------------------- the application's calls ------------------------ *)
\* random.shuffle of the connection list, for the requests that have no deque yet
Shuffles ==
    { f \in [Reqs -> Orders(connection_ls)] :
        \A r \in Reqs : req[r].exists /\ request_trace[r] /= << >>
                           => f[r] = CHOOSE o \in Orders(connection_ls) : TRUE }

\* an exception leaves the call; the application sees it
Leave(S) ==
    [IdleCall EXCEPT !.raised = S.exc, !.statuses = call.statuses, !.jobs = call.jobs]

\* poll() up to the head of its while loop: before_poll and the first tests
EnterPoll(fn, request_ls, block, deadline, S) ==
    IF S.exc /= "none" THEN Leave(S)
    ELSE [ pc |-> "poll", fn |-> fn, reqs |-> request_ls, block |-> block,
           deadline |-> deadline, workset |-> connection_ls, workable |-> S.ret,
           pollable |-> (\E c \in connection_ls : S.conn[c].connected),
           raised |-> "none", statuses |-> call.statuses, jobs |-> call.jobs ]

\* the predicate has run, leaving S; the call goes on into the poll loop
StartPoll(S, fn, request_ls, block, deadline, statuses, jobs) ==
    /\ Commit(S)
    /\ call' = [EnterPoll(fn, request_ls, block, deadline, S)
                  EXCEPT !.statuses = statuses, !.jobs = jobs]

\* the end of an iteration that does not test the working set again
EndIteration_untested(S) ==
    /\ Commit(S)
    /\ call' = IF S.exc /= "none" THEN Leave(S)
               ELSE [call EXCEPT !.workset = @ \ S.broken, !.workable = S.ret]

\* the end of one iteration that left S: the working set loses what broke
EndIteration(S) ==
    /\ Commit(S)
    /\ call' = IF S.exc /= "none" THEN Leave(S)
               ELSE [call EXCEPT !.workset = @ \ S.broken, !.workable = S.ret,
                                 !.pollable = (call.workset \ S.broken /= {})]

\* the requests are marked, leaving S, and the polling function returns
EndPoll(S) ==
    /\ Commit(S)
    /\ call' = IF S.exc /= "none" THEN Leave(S) ELSE [call EXCEPT !.pc = "returned"]

\* _create_job_request
NewRequest(background, priority, max_retries) ==
    [NoRequest EXCEPT !.exists = TRUE, !.background = background, !.priority = priority,
                      !.max_connect_attempts = max_retries + 1]

Priorities == {PRIORITY_NONE}

\* submit_multiple_jobs(job_ls, background, block, max_retries, timeout) up to
\* the first test of the poll loop of _blocking_submit
submit_multiple_jobs(n, background, block, max_retries, timeout) ==
    /\ call.pc = "idle"
    /\ \E priority \in Priorities, shuffles \in Shuffles :
         LET first == Cardinality({r \in Reqs : req[r].exists}) + 1
             request_ls == [i \in 1..n |-> first + i - 1]
             S0 == [Cur EXCEPT !.req = [r \in Reqs |->
                        IF r \in first..(first + n - 1)
                          THEN NewRequest(background, priority, max_retries)
                          ELSE req[r]],
                               !.hist.created = {}]
         IN  /\ n <= call.jobs
             /\ first + n - 1 <= NReqs
             /\ StartPoll(has_pending_jobs(S0, request_ls, shuffles),
                          "blocking_submit", request_ls, block,
                          IF timeout = 0 THEN 0 ELSE now + timeout,
                          call.statuses, call.jobs - n)

\* the application submits one or two jobs, with any options
SubmitMultipleJobs ==
    \E n \in 1..2, background \in BOOLEAN, block \in BOOLEAN,
       max_retries \in 0..MaxRetries, timeout \in 0..1 :
      submit_multiple_jobs(n, background, block, max_retries, timeout)

\* get_job_statuses([request]) up to the first test of the poll loop
GetJobStatuses ==
    /\ call.pc = "idle"
    /\ call.statuses < MaxStatusCalls
    /\ \E r \in Reqs, timeout \in 0..1 :
         LET last == IF "time_received" \in DOMAIN req[r].status
                       THEN req[r].status["time_received"] ELSE 0
             S0 == [Cur EXCEPT !.req[r].status = DictPut(@, "last_time_received", last),
                               !.hist.created = {}]
         IN  /\ req[r].exists
             /\ req[r].handler /= NoHandler
             /\ req[r].handle /= None
             /\ StartPoll(has_untouched_jobs(
                            send_get_status_of_job(S0, req[r].handler, r), <<r>>),
                          "wait_for_statuses", <<r>>, FALSE,
                          IF timeout = 0 THEN 0 ELSE now + timeout,
                          call.statuses + 1, call.jobs)

\* one iteration of the while loop of poll
PollIteration ==
    /\ call.pc = "poll"
    /\ call.workable /\ call.pollable
    /\ ~Expired(call.deadline, now)
    /\ LET nosock == \E c \in call.workset : ~conn[c].sock
           rd == { c \in call.workset : ReadReady(Cur, c) }
           wr == { c \in call.workset : WriteReady(Cur, c) }
           ex == { c \in call.workset : ErrorReady(Cur, c) }
       IN  /\ nosock \/ rd \cup wr \cup ex /= {}
           /\ \E readable_ls \in Orders(rd), writable_ls \in Orders(wr),
                 exceptional_ls \in Orders(ex), shuffles \in Shuffles :
                EndIteration(PollBody(Cur, call, readable_ls, writable_ls, exceptional_ls,
                                      shuffles))

\* the poll loop ends and the function that polled marks its requests
PollReturns ==
    /\ call.pc = "poll"
    /\ ~call.workable \/ ~call.pollable \/ Expired(call.deadline, now)
    /\ EndPoll(MarkTimedOut(Cur, call.fn, call.reqs))

\* _submit_job_requests after _blocking_submit: wait for completion when
\* asked to block and time remains
WaitUntilComplete ==
    /\ call.pc = "returned" /\ call.fn = "blocking_submit"
    /\ call.block /\ ~Expired(call.deadline, now)
    /\ StartPoll(has_incomplete_jobs(Cur, call.reqs),
                 "wait_until_complete", call.reqs, call.block, call.deadline,
                 call.statuses, call.jobs)

\* the call returns its requests to the application
CallReturns ==
    /\ call.pc = "returned"
    /\ call.fn = "blocking_submit" => ~call.block \/ Expired(call.deadline, now)
    /\ Commit(Cur)
    /\ call' = [IdleCall EXCEPT !.statuses = call.statuses, !.jobs = call.jobs]

(* ----------------------- the servers and the clock --------------------- *)
Tick ==
    /\ now < MaxNow
    /\ Commit([Cur EXCEPT !.now = now + 1])
    /\ UNCHANGED call

\* the reply of a server, as bytes on the client's socket
Reply(S, c, cmd_type, cmd_args) ==
    [S EXCEPT !.net[c].s2c = @ \o pack_binary_command(cmd_type, cmd_args, MAGIC_RES)]

Digit(b) == IF b THEN <<49>> ELSE <<48>>

\* a server takes one command off its socket and answers it
ServerReceives(c) ==
    LET p == parse_binary_command(net[c].c2s, MAGIC_REQ)
        S0 == [Cur EXCEPT !.net[c].c2s = SubSeq(@, p.cmd_len + 1, Len(@))]
        h == HandleBytes(nextHandle)
        known == \E j \in net[c].jobs : j.handle = p.cmd_args.job_handle
    IN  /\ conn[c].sock /\ ~net[c].eof /\ ~net[c].err
        /\ p.err = "none" /\ p.cmd_len > 0
        /\ \/ /\ p.cmd_type \in SubmitTypes
              /\ nextHandle <= MaxHandle
              /\ Commit(Reply([S0 EXCEPT !.nextHandle = @ + 1,
                                         !.net[c].jobs = @ \cup
                                            {[handle |-> h, unique |-> p.cmd_args.unique,
                                              background |-> p.cmd_type \in
                                                 {GEARMAN_COMMAND.SUBMIT_JOB_BG,
                                                  GEARMAN_COMMAND.SUBMIT_JOB_HIGH_BG,
                                                  GEARMAN_COMMAND.SUBMIT_JOB_LOW_BG}]}],
                              c, GEARMAN_COMMAND.JOB_CREATED, [job_handle |-> h]))
           \/ /\ p.cmd_type = GEARMAN_COMMAND.GET_STATUS
              /\ Commit(Reply(S0, c, GEARMAN_COMMAND.STATUS_RES,
                              [job_handle |-> p.cmd_args.job_handle, known |-> Digit(known),
                               running |-> Digit(known), numerator |-> <<48>>,
                               denominator |-> <<48>>]))
        /\ UNCHANGED call

\* a worker finished a foreground job: the server tells the client
ServerWorkDone(c) ==
    /\ conn[c].sock /\ ~net[c].eof /\ ~net[c].err
    /\ \E j \in net[c].jobs, ok \in BOOLEAN :
         /\ ~j.background
         /\ LET S0 == [Cur EXCEPT !.net[c].jobs = @ \ {j}]
            IN  Commit(IF ok
                         THEN Reply(S0, c, GEARMAN_COMMAND.WORK_COMPLETE,
                                    [job_handle |-> j.handle, data |-> ResultOf(j.unique)])
                         ELSE Reply(S0, c, GEARMAN_COMMAND.WORK_FAIL, [job_handle |-> j.handle]))
    /\ UNCHANGED call

\* the server closes its end of an open connection
ServerCloses(c) ==
    /\ conn[c].sock /\ ~net[c].eof
    /\ hist.faults < MaxFaults
    /\ Commit([Cur EXCEPT !.net[c].eof = TRUE, !.hist.faults = @ + 1])
    /\ UNCHANGED call

\* the server stops: open connections end, new ones are refused
ServerStops(c) ==
    /\ net[c].up
    /\ hist.faults < MaxFaults
    /\ Commit([Cur EXCEPT !.net[c].up = FALSE, !.net[c].eof = conn[c].sock,
                          !.hist.faults = @ + 1])
    /\ UNCHANGED call

ServerStarts(c) ==
    /\ ~net[c].up
    /\ Commit([Cur EXCEPT !.net[c].up = TRUE])
    /\ UNCHANGED call

\* the socket of an open connection fails (reset by peer)
SocketFails(c) ==
    /\ conn[c].sock /\ ~net[c].err
    /\ hist.faults < MaxFaults
    /\ Commit([Cur EXCEPT !.net[c].err = TRUE, !.hist.faults = @ + 1])
    /\ UNCHANGED call

(* --------------------------- the client system ------------------------- *)
\* after GearmanClient(host_list); the application has jobs to submit
Constructed(host_list, jobs) ==
    /\ StateIs(Blank)
    /\ connection_ls = host_list
    /\ call = [IdleCall EXCEPT !.jobs = jobs]
    /\ lock = NoLocks
    /\ thread = NoThreads

Init == Constructed({"c1"}, MaxJobs)

Next ==
    \/ SubmitMultipleJobs
    \/ GetJobStatuses
    \/ PollIteration
    \/ PollReturns
    \/ WaitUntilComplete
    \/ CallReturns
    \/ Tick
    \/ \E c \in connection_ls : ServerReceives(c)
    \/ \E c \in connection_ls : ServerWorkDone(c)
    \/ \E c \in connection_ls : ServerCloses(c)
    \/ \E c \in connection_ls : ServerStops(c)
    \/ \E c \in connection_ls : ServerStarts(c)
    \/ \E c \in connection_ls : SocketFails(c)

Spec == Init /\ [][Next]_vars

\* a client of two servers: the application submits a pair of foreground jobs
\* and then single ones, with one retry, no timeout and without blocking
SubmitToTwoServers ==
    submit_multiple_jobs(IF call.jobs = NReqs THEN 2 ELSE 1, FALSE, FALSE, 1, 0)

InitTwoServers == Constructed(Conns, NReqs)

NextTwoServers ==
    \/ SubmitToTwoServers
    \/ PollIteration
    \/ PollReturns
    \/ CallReturns
    \/ \E c \in connection_ls : ServerReceives(c)
    \/ \E c \in connection_ls : ServerWorkDone(c)
    \/ \E c \in connection_ls : ServerCloses(c)
    \/ \E c \in connection_ls : ServerStops(c)
    \/ \E c \in connection_ls : ServerStarts(c)

SpecTwoServers == InitTwoServers /\ [][NextTwoServers]_vars

(* ------------------- the complete property of a request ---------------- *)
\* a request object whose fields hold any values
InitJob ==
    /\ \E background \in BOOLEAN, state \in JobStates, timed_out \in BOOLEAN,
          handle \in {None, HandleBytes(1)}, result \in {None, ResultOf(UniqueOf(1))} :
         StateIs([Blank EXCEPT !.req[1] =
                    [NewRequest(background, PRIORITY_NONE, 0) EXCEPT
                       !.state = state, !.timed_out = timed_out,
                       !.handle = handle, !.result = result]])
    /\ connection_ls = {"c1"}
    /\ call = IdleCall
    /\ lock = NoLocks
    /\ thread = NoThreads

\* the application reads request.complete
ReadComplete ==
    /\ thread.main.pc = "idle"
    /\ thread' = [thread EXCEPT !.main.pc = "complete", !.main.ret = complete(req[1])]
    /\ UNCHANGED <<connection_ls, now, conn, handler, req, request_trace, net, nextHandle,
                   call, lock, hist, worker>>

NextJob == ReadComplete

SpecJob == InitJob /\ [][NextJob]_vars

(* ------------- the outbound path of a connection, with the pool -------- *)
MaxMainSends == 2

\* the commands the main loop's handler and the callback of thread t send
MainCommand(k) ==
    IF k = 1 THEN [cmd_type |-> GEARMAN_COMMAND.GRAB_JOB, cmd_args |-> << >>]
    ELSE [cmd_type |-> GEARMAN_COMMAND.PRE_SLEEP, cmd_args |-> << >>]

CallbackCommand(t) ==
    [ cmd_type |-> GEARMAN_COMMAND.WORK_COMPLETE,
      cmd_args |-> [job_handle |-> HandleBytes(IF t = "t1" THEN 1 ELSE 2),
                    data |-> ResultOf(UniqueOf(IF t = "t1" THEN 1 ELSE 2))] ]

MainSent == Cardinality({ i \in 1..Len(hist.sendlog) : hist.sendlog[i] \in
                            {MainCommand(1), MainCommand(2)} })

\* send_command and its record in the history
Sends(S, c, cmd) ==
    [send_command(S, c, cmd.cmd_type, cmd.cmd_args) EXCEPT !.hist.sendlog = Append(@, cmd)]

\* a connected worker connection whose socket takes `room` bytes per send
InitConn ==
    /\ \E room \in {1, 7, 4096} :
         StateIs([establish_connection(Blank, "c1") EXCEPT !.net["c1"].room = room])
    /\ connection_ls = {"c1"}
    /\ call = IdleCall
    /\ lock = NoLocks
    /\ thread = NoThreads

\* the main loop's handler sends a command: with self.manager.lock: append
MainSendsCommand ==
    /\ thread.main.pc = "idle"
    /\ lock.manager = "free"
    /\ MainSent < MaxMainSends
    /\ Commit(Sends(Cur, "c1", MainCommand(MainSent + 1)))
    /\ UNCHANGED call

\* handle_write, send_commands_to_buffer: packed_data = [self._outgoing_buffer]
WriteSnapshot ==
    /\ thread.main.pc = "idle"
    /\ writable(Cur, "c1")
    /\ thread' = [thread EXCEPT !.main.pc = "lock",
                                !.main.packed_data = conn["c1"].outgoing_buffer]
    /\ CommitState(Cur)
    /\ UNCHANGED <<call, lock>>

\* send_commands_to_buffer: the block under manager.lock and the join
WriteDrain ==
    /\ thread.main.pc = "lock"
    /\ lock.manager = "free"
    /\ CommitState(DrainLocked(Cur, "c1", thread.main.packed_data))
    /\ thread' = [thread EXCEPT !.main.pc = "send", !.main.packed_data = << >>]
    /\ UNCHANGED <<call, lock>>

\* handle_write: send_data_to_socket
WriteSend ==
    /\ thread.main.pc = "send"
    /\ CommitState(send_data_to_socket(Cur, "c1"))
    /\ thread' = [thread EXCEPT !.main.pc = "idle"]
    /\ UNCHANGED <<call, lock>>

\* _SafeManager wrapper: with self._lock
CallbackEnters(t) ==
    /\ thread.cb[t] = "unborn"
    /\ lock.callback = "free"
    /\ lock' = [lock EXCEPT !.callback = t]
    /\ thread' = [thread EXCEPT !.cb[t] = "wrapped"]
    /\ CommitState(Cur)
    /\ UNCHANGED call

\* send_command in the callback: with self.manager.lock
CallbackLocks(t) ==
    /\ thread.cb[t] = "wrapped"
    /\ lock.manager = "free"
    /\ lock' = [lock EXCEPT !.manager = t]
    /\ thread' = [thread EXCEPT !.cb[t] = "locked"]
    /\ CommitState(Cur)
    /\ UNCHANGED call

\* self._outgoing_commands.append(...), then the lock is released
CallbackAppends(t) ==
    /\ thread.cb[t] = "locked"
    /\ lock' = [lock EXCEPT !.manager = "free"]
    /\ thread' = [thread EXCEPT !.cb[t] = "sent"]
    /\ CommitState(Sends(Cur, "c1", CallbackCommand(t)))
    /\ UNCHANGED call

\* the wrapper returns and releases the pool's lock
CallbackLeaves(t) ==
    /\ thread.cb[t] = "sent"
    /\ lock' = [lock EXCEPT !.callback = "free"]
    /\ thread' = [thread EXCEPT !.cb[t] = "done"]
    /\ CommitState(Cur)
    /\ UNCHANGED call

NextConn ==
    \/ MainSendsCommand
    \/ WriteSnapshot
    \/ WriteDrain
    \/ WriteSend
    \/ \E t \in Callbacks : CallbackEnters(t)
    \/ \E t \in Callbacks : CallbackLocks(t)
    \/ \E t \in Callbacks : CallbackAppends(t)
    \/ \E t \in Callbacks : CallbackLeaves(t)

SpecConn == InitConn /\ [][NextConn]_vars

(* ------------- the inbound path of a connection, in chunks ------------- *)
MaxChunk == 3

\* what a server answers to two foreground submissions, in order
ServerAnswers ==
    << [cmd_type |-> GEARMAN_COMMAND.JOB_CREATED, cmd_args |-> [job_handle |-> HandleBytes(1)]],
       [cmd_type |-> GEARMAN_COMMAND.JOB_CREATED, cmd_args |-> [job_handle |-> HandleBytes(2)]],
       [cmd_type |-> GEARMAN_COMMAND.WORK_COMPLETE,
        cmd_args |-> [job_handle |-> HandleBytes(1), data |-> ResultOf(UniqueOf(1))]],
       [cmd_type |-> GEARMAN_COMMAND.WORK_FAIL, cmd_args |-> [job_handle |-> HandleBytes(2)]] >>

\* the bytes of a sequence of commands as the peer with this magic frames them
RECURSIVE Frames(_, _)
Frames(cmds, magic) ==
    IF cmds = << >> THEN << >>
    ELSE pack_binary_command(Head(cmds).cmd_type, Head(cmds).cmd_args, magic)
           \o Frames(Tail(cmds), magic)

\* the first bytes of a further frame, which never completes
TrailingFrames ==
    LET frame == Frames(<<ServerAnswers[3]>>, MAGIC_RES)
    IN  { << >>, SubSeq(frame, 1, 5), SubSeq(frame, 1, COMMAND_HEADER_SIZE),
          SubSeq(frame, 1, Len(frame) - 1) }

\* a client that has written the submissions of two requests to c1; the
\* server's answers and the start of a further frame are on their way
InitParse ==
    /\ \E k \in 1..Len(ServerAnswers), trailing \in TrailingFrames :
         LET S0 == [Blank EXCEPT !.req[1] = NewRequest(FALSE, PRIORITY_NONE, 0),
                                 !.req[2] = NewRequest(FALSE, PRIORITY_NONE, 0)]
             S1 == has_pending_jobs(S0, <<1, 2>>, [r \in Reqs |-> <<"c1">>])
             S2 == handle_write(S1, "c1")
             served == SubSeq(ServerAnswers, 1, k)
         IN  StateIs([S2 EXCEPT !.net["c1"].c2s = << >>,
                                !.net["c1"].flight = Frames(served, MAGIC_RES) \o trailing,
                                !.hist = [FreshHist EXCEPT !.served = served]])
    /\ connection_ls = {"c1"}
    /\ call = IdleCall
    /\ lock = NoLocks
    /\ thread = NoThreads

\* the next n bytes of the stream reach the client's socket
Arrives(n) ==
    /\ n <= Len(net["c1"].flight)
    /\ Commit([Cur EXCEPT !.net["c1"].s2c = @ \o SubSeq(net["c1"].flight, 1, n),
                          !.net["c1"].flight = SubSeq(@, n + 1, Len(@))])
    /\ UNCHANGED call

\* the rest of the stream reaches the socket at once
ArrivesWhole ==
    /\ Len(net["c1"].flight) > MaxChunk
    /\ Arrives(Len(net["c1"].flight))

\* the poll loop finds the connection readable: handle_read
HandleRead ==
    /\ ReadReady(Cur, "c1")
    /\ Commit(handle_read(Cur, "c1"))
    /\ UNCHANGED call

NextParse ==
    \/ \E n \in 1..MaxChunk : Arrives(n)
    \/ ArrivesWhole
    \/ HandleRead

SpecParse == InitParse /\ [][NextParse]_vars

(* --------------- a socket that takes k bytes per send ------------------ *)
\* the socket takes 1..MaxRoom bytes per send
MaxRoom == 13
\* one to MaxDrainCommands commands are queued
MaxDrainCommands == 2

\* the commands queued before the first handle_write
DrainCommands(n) == [i \in 1..n |-> IF i = 1 THEN CallbackCommand("t1") ELSE MainCommand(1)]

RECURSIVE SendsAll(_, _, _)
SendsAll(S, c, cmds) ==
    IF cmds = << >> THEN S ELSE SendsAll(Sends(S, c, Head(cmds)), c, Tail(cmds))

\* a connected connection with n commands queued, N bytes in all, whose
\* socket takes room < N bytes per send; history: the handle_write calls made
\* and what the last send_data_to_socket returned
InitDrain ==
    /\ \E n \in 1..MaxDrainCommands, room \in 1..MaxRoom :
         /\ room < Len(Frames(DrainCommands(n), MAGIC_REQ))
         /\ StateIs([SendsAll(establish_connection(Blank, "c1"), "c1", DrainCommands(n))
                       EXCEPT !.net["c1"].room = room,
                              !.hist = @ @@ [drain |-> [calls |-> 0, ret |-> 0]]])
    /\ connection_ls = {"c1"}
    /\ call = IdleCall
    /\ lock = NoLocks
    /\ thread = NoThreads

\* handle_write has left S
Drained(S) ==
    /\ Commit([S EXCEPT !.hist.drain = [calls |-> @.calls + 1, ret |-> S.ret]])
    /\ UNCHANGED call

\* the poll loop finds the connection writable and calls handle_write
DrainWrites ==
    /\ writable(Cur, "c1")
    /\ Drained(handle_write(Cur, "c1"))

NextDrain == DrainWrites

SpecDrain == InitDrain /\ [][NextDrain]_vars

(* ------------- a command of unknown type in the outbound queue ---------- *)
\* the application sends up to MaxPacked commands
MaxPacked == 4

\* a command whose type is not in GEARMAN_PARAMS_FOR_COMMAND
UnknownCommand == [cmd_type |-> 0, cmd_args |-> NoArgs]

PackCommands == {MainCommand(1), MainCommand(2), UnknownCommand}

\* history of the last handle_write: the outbound queue and buffer it found
\* and what it raised
NoPack == [called |-> FALSE, raised |-> "none", queue |-> << >>, buffer |-> << >>]

\* a connected connection with nothing queued
InitPack ==
    /\ StateIs([establish_connection(Blank, "c1") EXCEPT
                  !.hist = @ @@ [pack |-> NoPack, sends |-> 0]])
    /\ connection_ls = {"c1"}
    /\ call = IdleCall
    /\ lock = NoLocks
    /\ thread = NoThreads

\* connection.send_command(cmd_type, cmd_args) with any command type
PackSends ==
    /\ hist.sends < MaxPacked
    /\ \E cmd \in PackCommands :
         Commit([send_command(Cur, "c1", cmd.cmd_type, cmd.cmd_args) EXCEPT
                   !.hist.sends = @ + 1, !.hist.pack = NoPack])
    /\ UNCHANGED call

\* the poll loop finds the connection writable and calls handle_write; a
\* ProtocolError leaves poll
PackWrites ==
    /\ writable(Cur, "c1")
    /\ With(handle_write(Cur, "c1"),
            LAMBDA S :
              Commit([Caught(S) EXCEPT
                        !.hist.pack = [ called |-> TRUE, raised |-> S.exc,
                                        queue |-> conn["c1"].outgoing_commands,
                                        buffer |-> conn["c1"].outgoing_buffer ]]))
    /\ UNCHANGED call

NextPack ==
    \/ PackSends
    \/ PackWrites

SpecPack == InitPack /\ [][NextPack]_vars

(* ------------------- the cool-down of a connection --------------------- *)
\* history of the last connect() call: when the last call that was let through
\* was made, whether this call came before its cool-down had elapsed, what it
\* raised and whether it created a socket
NoAttempt == [at |-> 0, early |-> FALSE, raised |-> "none", created |-> FALSE]

\* connect() on c has left S; `last` is the history before the call
Attempted(S, c, last) ==
    [Caught(S) EXCEPT !.hist.attempt =
        [ at |-> IF last.at /= 0 /\ S.now < last.at + connect_cooldown_seconds
                      /\ S.exc = "ConnectionError" /\ ~S.conn[c].sock
                   THEN last.at ELSE S.now,
          early |-> last.at /= 0 /\ S.now < last.at + connect_cooldown_seconds,
          raised |-> S.exc,
          created |-> S.conn[c].sock ]]

\* one connection of a manager, never connected
InitCooldown ==
    /\ StateIs([Blank EXCEPT !.hist = FreshHist @@ [attempt |-> NoAttempt]])
    /\ connection_ls = {"c1"}
    /\ call = IdleCall
    /\ lock = NoLocks
    /\ thread = NoThreads

\* connection.connect() on a connection that is not connected
ConnectCall ==
    /\ ~conn["c1"].connected /\ ~conn["c1"].sock
    /\ Commit(Attempted(connect(Cur, "c1"), "c1", hist.attempt))
    /\ UNCHANGED call

\* connection.close()
CloseCall ==
    /\ conn["c1"].sock
    /\ Commit(close(Cur, "c1"))
    /\ UNCHANGED call

NextCooldown ==
    \/ ConnectCall
    \/ CloseCall
    \/ Tick
    \/ ServerCloses("c1")
    \/ ServerStops("c1")
    \/ ServerStarts("c1")
    \/ SocketFails("c1")

SpecCooldown == InitCooldown /\ [][NextCooldown]_vars

(* ------------------------------ the worker ----------------------------- *)
\* JOB_ASSIGN commands the servers send
MaxAssign == 1
\* connections the servers close
MaxWorkerFaults == 1

\* the application is not inside work()
WorkerIdle == [ pc |-> "idle", fn |-> "none", workset |-> {}, raised |-> "none" ]

\* the sock attribute of c is a socket that was closed
Stale(S, c) == S.conn[c].sock /\ c \in S.worker.stale

\* _update_state
_update_state(S) ==
    [S EXCEPT !.worker.handler_state =
                 [abilities |-> S.worker.abilities, client_id |-> S.worker.client_id]]

\* for connection in self.connection_ls: if connection.connected and not
\* connection.internal: connection.handler.set_abilities(...)
RECURSIVE SetAbilitiesAll(_, _)
SetAbilitiesAll(S, cs) ==
    IF cs = {} THEN S
    ELSE SetAbilitiesAll(
           IF S.conn[CHOOSE c \in cs : TRUE].connected
             THEN set_abilities(S, CHOOSE c \in cs : TRUE, S.worker.handler_state.abilities)
           ELSE S,
           cs \ {CHOOSE c \in cs : TRUE})

register_task(S, task) ==
    SetAbilitiesAll(_update_state([S EXCEPT !.worker.abilities = <<task>>]), connection_ls)

\* GearmanWorker.set_client_id; the history keeps who was connected
set_client_id(S, client_id) ==
    SetAbilitiesAll(
      _update_state([S EXCEPT !.worker.client_id = client_id,
                              !.worker.step.idset =
                                 {[ id |-> client_id,
                                    connected |-> { c \in connection_ls : S.conn[c].connected } ]}]),
      connection_ls)

\* _NotificationConnection.connect
notification_connect(S) ==
    [S EXCEPT !.worker.pipe =
        [peer_read |-> TRUE, peer_send |-> TRUE, connected |-> TRUE, data |-> << >>]]

\* _NotificationConnection.close
notification_close(S) == [S EXCEPT !.worker.pipe = NoPipe]

\* the for loop of establish_connections over the shuffled list; "n" is the
\* notification connection
RECURSIVE EstablishAll(_, _)
EstablishAll(S, order) ==
    IF S.exc /= "none" \/ order = << >> THEN S
    ELSE EstablishAll(
           IF Head(order) = "n"
             THEN (IF S.worker.pipe.connected THEN S ELSE notification_connect(S))
           ELSE With(establish_connection(S, Head(order)),
                     LAMBDA T : IF T.exc = "ConnectionError" THEN Caught(T) ELSE T),
           Tail(order))

establish_connections(S, order) ==
    Then(EstablishAll(S, order),
         LAMBDA T :
           IF \A c \in connection_ls : ~T.conn[c].connected
             THEN Raise(T, "ServerUnavailable")
           ELSE T)

\* terminate(): _notify() writes the default command 'w'
terminate(S) == _notify([S EXCEPT !.worker.terminated = TRUE], "w")

\* GearmanWorker.handle_read of the notification connection
RECURSIVE PrepareAll(_, _)
PrepareAll(S, cs) ==
    IF cs = {} THEN S
    ELSE PrepareAll(prepare(S, CHOOSE c \in cs : TRUE), cs \ {CHOOSE c \in cs : TRUE})

notification_read(S) ==
    PrepareAll([S EXCEPT !.worker.pipe.data = Tail(@),
                         !.worker.step.woken =
                            IF Head(S.worker.pipe.data) = "s" THEN connection_ls ELSE @],
               IF Head(S.worker.pipe.data) = "s" THEN connection_ls ELSE {})

\* _poll_once: fileno() of every connection polled
Filenos(S, workset) ==
    IF \E c \in workset : Stale(S, c) THEN Raise(S, "socket.error")
    ELSE IF \E c \in workset : ~S.conn[c].sock
      THEN throw_exception(S, CHOOSE c \in workset : ~S.conn[c].sock)
    ELSE IF ~S.worker.pipe.peer_read
      THEN Raise([S EXCEPT !.worker.pipe.connected = FALSE], "ConnectionError")
    ELSE S

\* _process of a worker: the pipe is read before or after the sockets
worker_process(S, readable_ls, writable_ls, exceptional_ls, pipe_ready, pipe_first) ==
    ProcessErrors(
      ProcessWrites(
        IF pipe_ready /\ pipe_first THEN ProcessReads(notification_read(S), readable_ls)
        ELSE IF pipe_ready
          THEN Then(ProcessReads(S, readable_ls), LAMBDA T : notification_read(T))
        ELSE ProcessReads(S, readable_ls),
        writable_ls),
      exceptional_ls)

\* GearmanWorker.has_pending_stuff
has_pending_stuff(S) ==
    IF S.worker.concurrency = 0 THEN FALSE ELSE busy(S)

\* GearmanWorker._enter_wonly_mode: defined without self and called as
\* self._enter_wonly_mode(), a TypeError before its body runs
_enter_wonly_mode(S) == Raise(S, "TypeError")

\* work() after poll returned workable: ret is the next value of workable
work_after_poll(S, workable) ==
    IF ~workable /\ has_pending_stuff(S)
      THEN Then(_enter_wonly_mode(S), LAMBDA T : Return(T, TRUE))
    ELSE Return(S, workable)

\* one iteration of poll as work() calls it: after_poll is
\* `lambda: not self.terminated`, and a worker has no attribute terminated
worker_poll_body(S, workset, readable_ls, writable_ls, exceptional_ls, pipe_ready, pipe_first) ==
    Then(Filenos(S, workset),
         LAMBDA T :
           Then(worker_process(T, readable_ls, writable_ls, exceptional_ls,
                               pipe_ready, pipe_first),
                LAMBDA U : Then(Raise(U, "AttributeError"),
                                LAMBDA V : work_after_poll(V, ~V.worker.terminated))))

\* the for loop of shutdown, in list order
RECURSIVE CloseAll(_, _)
CloseAll(S, order) ==
    IF S.exc /= "none" \/ order = << >> THEN S
    ELSE CloseAll(IF Head(order) = "n" THEN notification_close(S) ELSE close(S, Head(order)),
                  Tail(order))

ResultTypes ==
    { GEARMAN_COMMAND.WORK_COMPLETE, GEARMAN_COMMAND.WORK_EXCEPTION,
      GEARMAN_COMMAND.WORK_FAIL }

\* c is connected and a result command waits in its outbound queue
UnsentResult(S, c) ==
    /\ S.conn[c].connected
    /\ \E i \in 1..Len(S.conn[c].outgoing_commands) :
          S.conn[c].outgoing_commands[i].cmd_type \in ResultTypes

\* shutdown; the history keeps the connections whose unsent results it dropped
shutdown(S, order) ==
    With(CloseAll(S, order),
         LAMBDA T :
           [T EXCEPT !.worker.step.lost =
              { c \in connection_ls :
                  UnsentResult(S, c) /\ T.conn[c].outgoing_commands = << >> }])

\* work() or shutdown() left S: the call is over, with what it raised
WorkEnds(S, fn) ==
    /\ Commit(S)
    /\ call' = [WorkerIdle EXCEPT !.fn = fn, !.raised = S.exc]

\* work() reached the while loop of poll with S
WorkPolls(S) ==
    /\ Commit(S)
    /\ call' = IF S.exc /= "none" THEN [WorkerIdle EXCEPT !.fn = "work", !.raised = S.exc]
               ELSE [ pc |-> "poll", fn |-> "work", raised |-> "none",
                      workset |-> { c \in connection_ls : S.conn[c].connected } ]

\* the orders of the connection list after random.shuffle
WorkerOrders ==
    { o \in Orders(connection_ls \cup {"n"}) : TRUE }

\* worker.register_task(task, callback)
RegisterTask ==
    /\ call.pc = "idle"
    /\ worker.abilities = << >>
    /\ Commit(register_task(Cur, TaskBytes))
    /\ UNCHANGED call

\* worker.set_client_id(id) with a non-null id
SetClientId ==
    /\ call.pc = "idle"
    /\ worker.client_id = None
    /\ Commit(set_client_id(Cur, <<105>>))
    /\ UNCHANGED call

\* worker.work() up to the first test of the poll loop
Work ==
    /\ call.pc = "idle"
    /\ \E order \in WorkerOrders : WorkPolls(establish_connections(Cur, order))

\* the one iteration of the poll loop
WorkerPollIteration ==
    /\ call.pc = "poll"
    /\ LET rd == { c \in call.workset : ReadReady(Cur, c) }
           wr == { c \in call.workset : WriteReady(Cur, c) }
           ex == { c \in call.workset : ErrorReady(Cur, c) }
           pipe_ready == worker.pipe.connected /\ worker.pipe.data /= << >>
       IN  /\ pipe_ready \/ rd \cup wr \cup ex /= {}
                \/ \E c \in call.workset : ~conn[c].sock \/ Stale(Cur, c)
           /\ \E readable_ls \in Orders(rd), writable_ls \in Orders(wr),
                 exceptional_ls \in Orders(ex), pipe_first \in BOOLEAN :
                WorkEnds(worker_poll_body(Cur, call.workset, readable_ls, writable_ls,
                                          exceptional_ls, pipe_ready, pipe_first),
                         "work")

\* worker.terminate(), from a signal handler or another greenlet
Terminate ==
    /\ ~worker.terminated
    /\ Commit(Caught(terminate(Cur)))
    /\ UNCHANGED call

\* worker.shutdown(), called by the application
Shutdown ==
    /\ call.pc = "idle"
    /\ \E order \in WorkerOrders : WorkEnds(shutdown(Cur, order), "shutdown")

\* the greenlet of a job runs _entry to its end
GreenletRuns(j) ==
    /\ j \in DOMAIN worker.pool.workers
    /\ \A i \in 1..Len(worker.reports[j]) : worker.reports[j][i] /= "DONE"
    /\ Commit(_entry(Cur, j))
    /\ UNCHANGED call

\* the reaper greenlet takes a worker_id off the queue
Reaps ==
    /\ worker.pool.reapq /= << >>
    /\ Commit(_reap(Cur))
    /\ UNCHANGED call

\* what a job server may send to a worker besides jobs
ServerNotes ==
    { [cmd_type |-> GEARMAN_COMMAND.NOOP, cmd_args |-> NoArgs],
      [cmd_type |-> GEARMAN_COMMAND.NO_JOB, cmd_args |-> NoArgs],
      [cmd_type |-> GEARMAN_COMMAND.ERROR,
       cmd_args |-> [error_code |-> <<101>>, error_text |-> <<101>>]] }

Live(c) == conn[c].sock /\ ~Stale(Cur, c) /\ ~net[c].eof /\ ~net[c].err

\* the server sends NOOP, NO_JOB or ERROR
ServerSendsNote(c) ==
    /\ Live(c) /\ net[c].s2c = << >>
    /\ \E cmd \in ServerNotes : Commit(Reply(Cur, c, cmd.cmd_type, cmd.cmd_args))
    /\ UNCHANGED call

\* the server assigns a job
ServerAssigns(c) ==
    /\ Live(c) /\ net[c].s2c = << >>
    /\ nextHandle <= MaxAssign
    /\ \E data \in {DataBytes, <<101>>, <<102>>} :
         Commit(IF nextHandle % 2 = 1
                  THEN Reply([Cur EXCEPT !.nextHandle = @ + 1], c,
                             GEARMAN_COMMAND.JOB_ASSIGN_UNIQ,
                             [job_handle |-> HandleBytes(nextHandle), task |-> TaskBytes,
                              unique |-> UniqueOf(nextHandle), data |-> data])
                ELSE Reply([Cur EXCEPT !.nextHandle = @ + 1], c,
                           GEARMAN_COMMAND.JOB_ASSIGN,
                           [job_handle |-> HandleBytes(nextHandle), task |-> TaskBytes,
                            data |-> data]))
    /\ UNCHANGED call

\* after GearmanWorker(host_ls, concurrency) with one server; concurrency 0 is
\* None
InitWorker ==
    /\ \E concurrency \in 0..1 :
         StateIs([Blank EXCEPT
                    !.handler = [c \in Conns |-> FreshWorkerHandler],
                    !.worker = [NoWorker EXCEPT !.constructed = TRUE,
                                                !.concurrency = concurrency]])
    /\ connection_ls = {"c1"}
    /\ call = WorkerIdle
    /\ lock = NoLocks
    /\ thread = NoThreads

NextWorker ==
    \/ RegisterTask
    \/ SetClientId
    \/ Work
    \/ WorkerPollIteration
    \/ Terminate
    \/ Shutdown
    \/ \E j \in 1..MaxAssign : GreenletRuns(j)
    \/ Reaps
    \/ \E c \in connection_ls : ServerSendsNote(c)
    \/ \E c \in connection_ls : ServerAssigns(c)
    \/ \E c \in connection_ls : hist.faults < MaxWorkerFaults /\ ServerCloses(c)

SpecWorker == InitWorker /\ [][NextWorker]_vars

\* gevent lets the greenlets of the pool and its reaper run
SpecWorkerFair ==
    /\ SpecWorker
    /\ WF_vars(\E j \in 1..MaxAssign : GreenletRuns(j))
    /\ WF_vars(Reaps)

(* ------------- an application that calls terminate() repeatedly ------------- *)
\* worker.terminate(), called any number of times
TerminateCalls ==
    /\ Commit(Caught(terminate(Cur)))
    /\ UNCHANGED call

NextPipe ==
    \/ RegisterTask
    \/ Work
    \/ WorkerPollIteration
    \/ TerminateCalls
    \/ \E c \in connection_ls : ServerSendsNote(c)
    \/ \E c \in connection_ls : hist.faults < MaxWorkerFaults /\ ServerCloses(c)

SpecPipe == InitWorker /\ [][NextPipe]_vars

(* ------------------- a server that sends a bad frame ------------------- *)
\* a frame no server may send: the magic of a request, \0REQ, where \0RES is due
MalformedFrame == MAGIC_REQ \o U32(GEARMAN_COMMAND.JOB_CREATED) \o U32(0)

\* the server writes a malformed frame on the connection
ServerSendsMalformed(c) ==
    /\ conn[c].sock /\ ~net[c].eof /\ ~net[c].err
    /\ hist.faults < MaxFaults
    /\ Commit([Cur EXCEPT !.net[c].s2c = @ \o MalformedFrame, !.hist.faults = @ + 1])
    /\ UNCHANGED call

\* a client of one server that may send a malformed frame
NextMalformed ==
    \/ SubmitMultipleJobs
    \/ PollIteration
    \/ PollReturns
    \/ CallReturns
    \/ \E c \in connection_ls : ServerReceives(c)
    \/ \E c \in connection_ls : ServerSendsMalformed(c)

SpecMalformed == Init /\ [][NextMalformed]_vars

(* --------------------------- the admin handler ------------------------- *)
MaxAdminSends == 2
MaxAdminLines == 4

\* str(n)
RECURSIVE Digits(_)
Digits(n) == IF n < 10 THEN <<48 + n>> ELSE Digits(n \div 10) \o <<48 + (n % 10)>>

\* sep.join(fields)
RECURSIVE JoinOn(_, _)
JoinOn(fields, sep) ==
    IF Len(fields) = 0 THEN << >>
    ELSE IF Len(fields) = 1 THEN fields[1]
    ELSE fields[1] \o <<sep>> \o JoinOn(Tail(fields), sep)

\* the rows a server may report
StatusRows ==
    { [task |-> <<116>>, queued |-> 1, running |-> 0, workers |-> 2],
      [task |-> <<117>>, queued |-> 0, running |-> 10, workers |-> 0] }

WorkersRows ==
    { [fd |-> <<51>>, ip |-> <<49, 46, 50>>, client_id |-> <<45>>, tasks |-> << <<116>> >>],
      [fd |-> <<52>>, ip |-> <<49, 46, 50>>, client_id |-> <<105>>, tasks |-> << >>] }

\* the line gearmand writes for a row
FormatStatusRow(r) ==
    JoinOn(<<r.task, Digits(r.queued), Digits(r.running), Digits(r.workers)>>, TAB)

FormatWorkersRow(r) ==
    JoinOn(<<r.fd, r.ip, r.client_id, <<COLON>>>> \o r.tasks, SPACE)

NoPop == [called |-> FALSE, raised |-> FALSE, sent |-> << >>, recv |-> << >>, ret |-> << >>]

\* history of an admin connection: the commands the server has not answered
\* yet, the rows of the response it is writing, the responses it has finished,
\* the responses pop_response returned, and the last read and pop
FreshAdminHist ==
    [ pending |-> << >>, cur |-> << >>, expected |-> << >>, popped |-> << >>,
      sends |-> 0, lines |-> 0,
      read |-> [pushed |-> 0, left |-> 0, raised |-> "none"], pop |-> NoPop ]

\* an admin handler on a connection that is established
InitAdmin ==
    /\ StateIs(connect([Blank EXCEPT
                          !.handler = [c \in Conns |-> FreshAdminHandler],
                          !.hist = FreshHist @@ [admin |-> FreshAdminHist]],
                       "c1"))
    /\ connection_ls = {"c1"}
    /\ call = IdleCall
    /\ lock = NoLocks
    /\ thread = NoThreads

\* the command lines the application sends; the last is no admin command
AdminCommandLines ==
    { GEARMAN_ADMIN_COMMAND.STATUS, GEARMAN_ADMIN_COMMAND.WORKERS, <<98>> }

\* send_text_command has left S
AdminSent(S, command_line) ==
    Commit([Caught(S) EXCEPT
              !.hist.admin.sends = @ + 1,
              !.hist.admin.pop = NoPop,
              !.hist.admin.pending =
                  IF S.exc = "none" THEN Append(@, command_line) ELSE @])

\* handler.send_text_command(command_line)
AdminSends ==
    /\ hist.admin.sends < MaxAdminSends
    /\ \E command_line \in AdminCommandLines :
         AdminSent(send_text_command(Cur, "c1", command_line), command_line)
    /\ UNCHANGED call

\* the server writes one more row of the response to the oldest command
AdminServerRow ==
    /\ hist.admin.pending /= << >>
    /\ hist.admin.lines < MaxAdminLines
    /\ \E r \in (IF Head(hist.admin.pending) = GEARMAN_ADMIN_COMMAND.STATUS
                   THEN StatusRows ELSE WorkersRows) :
         Commit([Cur EXCEPT
                   !.net["c1"].s2c =
                       @ \o (IF Head(hist.admin.pending) = GEARMAN_ADMIN_COMMAND.STATUS
                               THEN FormatStatusRow(r) ELSE FormatWorkersRow(r))
                         \o <<NEWLINE>>,
                   !.hist.admin.cur = Append(@, r),
                   !.hist.admin.lines = @ + 1,
                   !.hist.admin.pop = NoPop])
    /\ UNCHANGED call

\* the server ends the response with the line '.'
AdminServerEnds ==
    /\ hist.admin.pending /= << >>
    /\ hist.admin.lines < MaxAdminLines
    /\ Commit([Cur EXCEPT
                 !.net["c1"].s2c = @ \o <<DOT, NEWLINE>>,
                 !.hist.admin.expected = Append(@, hist.admin.cur),
                 !.hist.admin.cur = << >>,
                 !.hist.admin.pending = Tail(@),
                 !.hist.admin.lines = @ + 1,
                 !.hist.admin.pop = NoPop])
    /\ UNCHANGED call

\* handle_read has left S
AdminRead(S) ==
    Commit([Caught(S) EXCEPT
              !.hist.admin.pop = NoPop,
              !.hist.admin.read =
                  [ pushed |-> Len(S.handler["c1"]._recv_responses)
                                 - Len(handler["c1"]._recv_responses),
                    left |-> Len(S.conn["c1"].incoming_commands),
                    raised |-> S.exc ]])

\* the manager's handle_read of the connection, when it is readable; the poll
\* goes on only while no response is ready (_wait_for_response)
AdminReads ==
    /\ conn["c1"].connected /\ net["c1"].s2c /= << >>
    /\ ~response_ready(Cur, "c1")
    /\ AdminRead(handle_read(Cur, "c1"))
    /\ UNCHANGED call

\* pop_response has left S
AdminPopped(S) ==
    Commit([Caught(S) EXCEPT
              !.hist.admin.pop =
                  [ called |-> TRUE, raised |-> S.exc /= "none",
                    sent |-> handler["c1"]._sent_commands,
                    recv |-> handler["c1"]._recv_responses,
                    ret |-> IF S.exc = "none" THEN S.ret ELSE << >> ],
              !.hist.admin.popped = IF S.exc = "none" THEN Append(@, S.ret[2]) ELSE @])

\* handler.pop_response(), whether a response is ready or not
AdminPops ==
    /\ ~hist.admin.pop.called
    /\ AdminPopped(pop_response(Cur, "c1"))
    /\ UNCHANGED call

NextAdmin ==
    \/ AdminSends
    \/ AdminServerRow
    \/ AdminServerEnds
    \/ AdminReads
    \/ AdminPops

SpecAdmin == InitAdmin /\ [][NextAdmin]_vars

\* handle_read of the connection whenever it is readable: the poll of an
\* application that waits for the responses of all the commands it sent
AdminReadsPipelined ==
    /\ conn["c1"].connected /\ net["c1"].s2c /= << >>
    /\ AdminRead(handle_read(Cur, "c1"))
    /\ UNCHANGED call

NextPipelined ==
    \/ AdminSends
    \/ AdminServerRow
    \/ AdminServerEnds
    \/ AdminReadsPipelined
    \/ AdminPops

SpecPipelined == InitAdmin /\ [][NextPipelined]_vars

(* ------------------------------ claims --------------------------------- *)
\* C1: every change of request.state is UNKNOWN->PENDING by send_job_request,
\* PENDING->CREATED by JOB_CREATED, CREATED->COMPLETE by WORK_COMPLETE,
\* CREATED->FAILED by WORK_FAIL, or a reset to UNKNOWN by on_io_error of the
\* connection the request is bound to.
C1_StateEdges ==
    \A e \in hist.edges :
       \/ e.from = JOB_UNKNOWN /\ e.to = JOB_PENDING /\ e.by = "send_job_request"
       \/ e.from = JOB_PENDING /\ e.to = JOB_CREATED /\ e.by = "recv_job_created"
       \/ e.from = JOB_CREATED /\ e.to = JOB_COMPLETE /\ e.by = "recv_work_complete"
       \/ e.from = JOB_CREATED /\ e.to = JOB_FAILED /\ e.by = "recv_work_fail"
       \/ e.to = JOB_UNKNOWN /\ e.by = "on_io_error" /\ e.conn = e.bound

\* C2: the k-th JOB_CREATED received on a connection since it was established
\* binds the request whose SUBMIT_JOB was the k-th emitted on it since then.
C2_FifoBinding ==
    hist.bound.actual = hist.bound.expected

\* C3: once a request is CREATED, no further SUBMIT_JOB is emitted for it
\* during the same submit_multiple_jobs call.
C3_NoResubmitAfterCreated ==
    \A e \in hist.created : hist.submits[e.r] = e.submits

\* C4: the SUBMIT_JOB commands emitted for a request never exceed
\* max_connect_attempts, connect_attempts <= max_connect_attempts, and a
\* submission at connect_attempts = max_connect_attempts raises
\* ExceededConnectionAttempts, emits nothing and leaves the state.
C4_AttemptsBounded ==
    /\ \A r \in Reqs : req[r].exists =>
          /\ hist.submits[r] <= req[r].max_connect_attempts
          /\ req[r].connect_attempts <= req[r].max_connect_attempts
    /\ \A e \in hist.refused :
          /\ call.raised = "ExceededConnectionAttempts"
          /\ req[e.r].connect_attempts = req[e.r].max_connect_attempts
          /\ hist.submits[e.r] = e.submits
          /\ req[e.r].state = e.state

C4_Witness ==
    \E e \in hist.refused :
       /\ e.submits = req[e.r].max_connect_attempts
       /\ e.submits >= 1
       /\ call.raised = "ExceededConnectionAttempts"

\* C5: with two servers and max_retries >= 1, a request reset by on_io_error
\* while PENDING is re-submitted by the same poll iteration to the other
\* server, not to the one that just failed.
C5_RetryOnOtherServer ==
    \A e, f \in hist.edges :
       ( /\ e.r = f.r
         /\ e.by = "on_io_error" /\ e.from = JOB_PENDING
         /\ f.by = "send_job_request" )
       => f.conn /= e.conn

\* C6: a foreground request in COMPLETE or FAILED never changes state again.
C6_TerminalStates ==
    \A e \in hist.edges :
       ~req[e.r].background => e.from \notin {JOB_COMPLETE, JOB_FAILED}

\* C7: when _blocking_submit returns, timed_out holds exactly for the PENDING
\* requests; when _wait_until_complete returns, exactly for the requests that
\* are not complete; the expiry of the timeout raises nothing.
C7_TimeoutsByFlag ==
    /\ [](call.pc = "returned" =>
            \A i \in 1..Len(call.reqs) :
               LET request == req[call.reqs[i]]
               IN  /\ call.fn = "blocking_submit" =>
                        (request.timed_out <=> request.state = JOB_PENDING)
                   /\ call.fn = "wait_until_complete" =>
                        (request.timed_out <=>
                           ~( \/ request.background /\ request.state = JOB_CREATED
                              \/ ~request.background
                                   /\ request.state \in {JOB_FAILED, JOB_COMPLETE} )))
    /\ [][ ( /\ call.pc = "poll"
             /\ call.fn \in {"blocking_submit", "wait_until_complete"}
             /\ Expired(call.deadline, now)
             /\ call' /= call )
           => call'.pc = "returned" /\ call'.raised = "none" ]_vars

C7_Witness ==
    /\ call.pc = "returned"
    /\ call.fn = "wait_until_complete"
    /\ Expired(call.deadline, now)
    /\ \E i \in 1..Len(call.reqs) :
          req[call.reqs[i]].timed_out /\ req[call.reqs[i]].state = JOB_CREATED

\* C8: complete is true exactly when the request is background and CREATED,
\* or foreground and FAILED or COMPLETE.
C8_Complete ==
    thread.main.pc = "complete" =>
       ( thread.main.ret <=>
           \/ req[1].background /\ req[1].state = JOB_CREATED
           \/ ~req[1].background /\ req[1].state \in {JOB_FAILED, JOB_COMPLETE} )

C8_Witness ==
    /\ thread.main.pc = "complete"
    /\ thread.main.ret
    /\ req[1].background /\ req[1].state = JOB_CREATED /\ req[1].result = None

\* C9: the bytes written to the socket, then the outbound buffer, then the
\* queued commands are the serialized commands in send_command order: nothing
\* is lost, duplicated or reordered.
C9_OutboundOrder ==
    net["c1"].c2s \o conn["c1"].outgoing_buffer
          \o Frames(conn["c1"].outgoing_commands, MAGIC_REQ)
       = Frames(hist.sendlog, MAGIC_REQ)

C9_Witness ==
    /\ Len(hist.sendlog) = 4
    /\ hist.sendlog[1] = CallbackCommand("t2")
    /\ hist.sendlog[2] = MainCommand(1)
    /\ net["c1"].room = 7
    /\ net["c1"].c2s = Frames(hist.sendlog, MAGIC_REQ)

\* C10: the commands put on the inbound queue are the commands of the byte
\* stream in order, however the stream is split into reads, and an incomplete
\* trailing frame stays in the inbound buffer.
C10_ChunkingIndependent ==
    /\ Len(hist.enqueued) <= Len(hist.served)
    /\ hist.enqueued = SubSeq(hist.served, 1, Len(hist.enqueued))
    /\ _unpack_command(conn["c1"].incoming_buffer).cmd_len = 0
    /\ Frames(hist.enqueued, MAGIC_RES) \o conn["c1"].incoming_buffer
          \o net["c1"].s2c \o net["c1"].flight
       \in { Frames(hist.served, MAGIC_RES) \o trailing : trailing \in TrailingFrames }

C10_Witness ==
    /\ hist.served = ServerAnswers
    /\ Len(hist.enqueued) = 2
    /\ Len(conn["c1"].incoming_buffer) = 1
    /\ net["c1"].flight /= << >>

\* C11: a connect() made before the 1-second cool-down of the previous
\* connect() attempt on the same connection has elapsed raises ConnectionError
\* and creates no socket
C11_Cooldown ==
    hist.attempt.early =>
        hist.attempt.raised = "ConnectionError" /\ ~hist.attempt.created

\* C12: every close() of a connection raises nothing and leaves the connection
\* disconnected, without a socket, not write-only and with empty buffers and
\* queues, whether or not it was closed before
C12_CloseIdempotent ==
    \A e \in worker.step.closed : ~e.raised /\ conn[e.conn] = FreshConn

\* C13: in every reachable state of a worker with concurrency C > 0 the pool
\* has reserved >= 0, running >= 0 and running + reserved <= C
C13_PoolBounds ==
    (worker.constructed /\ worker.concurrency > 0) =>
        /\ worker.pool.reserved >= 0
        /\ worker.pool.running >= 0
        /\ worker.pool.running + worker.pool.reserved <= worker.concurrency

\* C14: with concurrency = 1, a NOOP dispatched while the only slot is taken by
\* a running job leaves the handler with _waiting = true, emits no GRAB_JOB_UNIQ
\* and does not end work() with an exception
C14_Saturation ==
    \A e \in worker.step.noop :
        (worker.concurrency = 1 /\ e.running = 1) =>
            /\ handler[e.conn]._waiting
            /\ call.raised = "none"
            /\ \A i \in 1..Len(conn[e.conn].outgoing_commands) :
                  conn[e.conn].outgoing_commands[i].cmd_type /= GEARMAN_COMMAND.GRAB_JOB_UNIQ

\* the terminal reports among what was recorded for a job
TerminalReports(r) ==
    SelectSeq(r, LAMBDA x : x \in {"WORK_COMPLETE", "WORK_EXCEPTION", "WORK_FAIL"})

\* C15: once an assigned job is over (inline: its handler went back to sleep;
\* pool: its greenlet ended) and the connection is still open, exactly one
\* terminal report was enqueued for it, WORK_COMPLETE or WORK_EXCEPTION followed
\* by WORK_FAIL; inline, the report comes before the PRE_SLEEP
C15_OneReport ==
    \A j \in DOMAIN worker.reports :
        LET r == worker.reports[j]
            over == \E i \in 1..Len(r) :
                       r[i] = (IF worker.concurrency = 0 THEN "PRE_SLEEP" ELSE "DONE")
        IN  (over /\ \A c \in connection_ls : conn[c].connected) =>
               /\ TerminalReports(r) \in { <<"WORK_COMPLETE">>,
                                           <<"WORK_EXCEPTION", "WORK_FAIL">> }
               /\ worker.concurrency = 0 => r = TerminalReports(r) \o <<"PRE_SLEEP">>

\* C16: once the worker is terminated, shutdown() never empties the outbound
\* queue of a connection that is still connected while a WORK_COMPLETE,
\* WORK_EXCEPTION or WORK_FAIL waits in it unsent
C16_ResultsFlushed ==
    worker.terminated => worker.step.lost = {}

\* C17: the step that ends work() after terminate() was called ends it by a
\* return, not an exception, with the pool terminated, every connection
\* disconnected and the notification pipe closed
C17_TerminateReturns ==
    [][ (call.pc = "poll" /\ worker.terminated /\ call'.pc = "idle") =>
            /\ call'.raised = "none"
            /\ worker.concurrency > 0 => worker'.pool.terminated
            /\ \A c \in connection_ls : ~conn'[c].connected /\ ~conn'[c].sock
            /\ ~worker'.pipe.connected ]_vars

\* C18: a poll iteration never leaves the polling call with a ConnectionError:
\* the failure of one connection of the poll set stays with that connection
C18_FailureIsolated ==
    [][ (call.pc = "poll" /\ call'.pc = "idle") =>
            call'.raised /= "ConnectionError" ]_vars

\* C19: a connection on which a ProtocolError occurred is closed: no connection
\* that is still connected holds a malformed frame at the head of its inbound
\* buffer
C19_ProtocolErrorCloses ==
    \A c \in connection_ls :
        conn[c].connected => _unpack_command(conn[c].incoming_buffer).err = "none"

\* C20: after worker.set_client_id(id) with a non-null id, every connection
\* that was connected has SET_CLIENT_ID(id) in its outbound queue and a handler
\* whose _client_id is id; and no connect made afterwards fails with a NameError
\* while it sends the id
C20_ClientIdBroadcast ==
    /\ \A e \in worker.step.idset :
         \A c \in e.connected :
            /\ handler[c]._client_id = e.id
            /\ \E i \in 1..Len(conn[c].outgoing_commands) :
                  /\ conn[c].outgoing_commands[i].cmd_type = GEARMAN_COMMAND.SET_CLIENT_ID
                  /\ conn[c].outgoing_commands[i].cmd_args.client_id = e.id
    /\ call.raised /= "NameError"

\* a is the beginning of b
IsPrefixOf(a, b) == Len(a) <= Len(b) /\ SubSeq(b, 1, Len(a)) = a

\* the responses the handler has pushed so far, popped or not
AdminDelivered == hist.admin.popped \o handler["c1"]._recv_responses

\* everything the server wrote has been read, parsed and dispatched
AdminDrained ==
    /\ net["c1"].s2c = << >>
    /\ conn["c1"].incoming_buffer = << >>
    /\ conn["c1"].incoming_commands = << >>

\* C21: the responses pushed for status and workers commands are, in order, the
\* responses the server has ended with '.', each the tuple of its own rows in
\* arrival order (no response before its terminator, no row of an earlier
\* response in a later one); one read pushes at most one response, whatever is
\* queued behind the terminator; and once everything is dispatched the row
\* accumulator holds exactly the rows of the response still being written
C21_RowsUntilTerminator ==
    /\ IsPrefixOf(AdminDelivered, hist.admin.expected)
    /\ hist.admin.read.pushed <= 1
    /\ AdminDrained =>
         /\ AdminDelivered = hist.admin.expected
         /\ handler["c1"]._status_response \o handler["c1"]._workers_response
               = hist.admin.cur

C21_Witness ==
    /\ hist.admin.read.pushed = 1
    /\ hist.admin.read.left > 0
    /\ Len(AdminDelivered) = 1
    /\ AdminDelivered[1] /= << >>
    /\ response_ready(Cur, "c1")

\* C22: pop_response raises InvalidAdminClientState and leaves both queues as
\* they were when either is empty; otherwise it returns the heads of both
\* queues and removes exactly them
C22_PopResponse ==
    hist.admin.pop.called =>
        IF hist.admin.pop.sent = << >> \/ hist.admin.pop.recv = << >>
          THEN /\ hist.admin.pop.raised
               /\ handler["c1"]._sent_commands = hist.admin.pop.sent
               /\ handler["c1"]._recv_responses = hist.admin.pop.recv
        ELSE /\ ~hist.admin.pop.raised
             /\ hist.admin.pop.ret
                  = << Head(hist.admin.pop.sent), Head(hist.admin.pop.recv) >>
             /\ handler["c1"]._sent_commands = Tail(hist.admin.pop.sent)
             /\ handler["c1"]._recv_responses = Tail(hist.admin.pop.recv)

C22_Witness ==
    /\ hist.admin.pop.called
    /\ ~hist.admin.pop.raised
    /\ Len(hist.admin.pop.sent) = 2
    /\ hist.admin.pop.recv /= << >>

\* C23: a write to the notification pipe that would block, because the pipe
\* is full, does not raise, leaves the pipe connected and leaves the pending
\* bytes in it
C23_EagainSwallowed ==
    \A n \in worker.step.notified :
        n.pending >= PipeCapacity =>
            /\ n.raised = "none"
            /\ n.connected
            /\ Len(n.data) = n.pending

\* the positions of the deque _create_handler walked whose connection could
\* be established
Connectable(k) == { i \in 1..Len(k.deque) : k.deque[i] \in k.can }

\* C24: _create_handler returns the handler of the first connection of the
\* request's deque that can be established; it raises ServerUnavailable
\* exactly when none can, and then the request is still UNKNOWN, its
\* connect_attempts is what it was and no command was enqueued
C24_FirstConnectable ==
    \A k \in hist.chosen :
        /\ k.exc \in {"none", "ServerUnavailable"}
        /\ (k.exc = "ServerUnavailable") <=> (Connectable(k) = {})
        /\ Connectable(k) /= {} =>
             /\ k.ret = k.deque[CHOOSE i \in Connectable(k) :
                                  \A j \in Connectable(k) : i <= j]
             /\ k.attempts = 1
             /\ k.sent = {k.ret}
        /\ Connectable(k) = {} =>
             /\ k.state = JOB_UNKNOWN
             /\ k.attempts = 0
             /\ k.sent = {}

\* no server of the request's deque accepted the connection and the call ended
\* with ServerUnavailable
C24_Witness ==
    \E k \in hist.chosen :
        /\ Len(k.deque) = 2
        /\ k.can = {}
        /\ k.exc = "ServerUnavailable"
        /\ req[k.r].state = JOB_UNKNOWN

\* C25: every request in the request_queue of a client handler is PENDING
C25_QueuedArePending ==
    \A c \in connection_ls :
        \A i \in 1..Len(handler[c].request_queue) :
            req[handler[c].request_queue[i]].state = JOB_PENDING

\* C26: every request the handle map of a client handler binds under handle h
\* has job.handle = h and is CREATED
C26_BoundAreCreated ==
    \A c \in connection_ls :
        \A h \in DOMAIN handler[c].request_trace :
            /\ req[handler[c].request_trace[h]].handle = h
            /\ req[handler[c].request_trace[h]].state = JOB_CREATED

\* the worker handlers that sent GRAB_JOB_UNIQ and await the answer
Grabbing == { c \in connection_ls : handler[c].grabbing = "True" }

\* C27: the pool's reserved count is the number of grabbing handlers
C27_ReservedIsGrabbing == worker.pool.reserved = Cardinality(Grabbing)

\* ceil(n / k)
CeilDiv(n, k) == (n + k - 1) \div k

\* the bytes queued at the start, and how many of them n sends of k bytes take
DrainBytes == Frames(hist.sendlog, MAGIC_REQ)
DrainTaken ==
    IF hist.drain.calls * net["c1"].room < Len(DrainBytes)
      THEN hist.drain.calls * net["c1"].room
    ELSE Len(DrainBytes)

\* C28: N bytes through a socket that takes k < N bytes per send: after n
\* handle_write calls the socket has the first min(n k, N) bytes, the buffer
\* the rest, send_data_to_socket returned the size of the rest, the
\* connection is writable while bytes are left, and the buffer is empty
\* after exactly ceil(N / k) calls
C28_DrainsInCeil ==
    hist.drain.calls > 0 =>
        /\ net["c1"].c2s = SubSeq(DrainBytes, 1, DrainTaken)
        /\ conn["c1"].outgoing_buffer = SubSeq(DrainBytes, DrainTaken + 1, Len(DrainBytes))
        /\ conn["c1"].outgoing_commands = << >>
        /\ hist.drain.ret = Len(DrainBytes) - DrainTaken
        /\ writable(Cur, "c1") <=> (DrainTaken < Len(DrainBytes))
        /\ (conn["c1"].outgoing_buffer = << >>)
             <=> (hist.drain.calls = CeilDiv(Len(DrainBytes), net["c1"].room))

\* the last of at least three partial writes, shorter than the ones before
C28_Witness ==
    /\ Len(DrainBytes) % net["c1"].room /= 0
    /\ hist.drain.calls = CeilDiv(Len(DrainBytes), net["c1"].room)
    /\ hist.drain.calls >= 3
    /\ hist.drain.ret = 0
    /\ net["c1"].c2s = DrainBytes
    /\ ~writable(Cur, "c1")

\* the commands set_state(client_id, abilities) is to enqueue, in order
StartupCommands(client_id, abilities) ==
    (IF client_id /= None
       THEN << [cmd_type |-> GEARMAN_COMMAND.SET_CLIENT_ID,
                cmd_args |-> [client_id |-> client_id]] >>
     ELSE << >>)
      \o << [cmd_type |-> GEARMAN_COMMAND.RESET_ABILITIES, cmd_args |-> NoArgs] >>
      \o [i \in 1..Len(abilities) |->
            [cmd_type |-> GEARMAN_COMMAND.CAN_DO, cmd_args |-> [task |-> abilities[i]]]]
      \o << [cmd_type |-> GEARMAN_COMMAND.PRE_SLEEP, cmd_args |-> NoArgs] >>

\* C29: after connect() of a worker connection the connection is connected,
\* nothing was written yet, and its outbound queue starts with SET_CLIENT_ID
\* (when an id is set), RESET_ABILITIES, CAN_DO per task, PRE_SLEEP
C29_StartupSequence ==
    \A k \in worker.step.setstate :
        /\ conn[k.conn].connected
        /\ net[k.conn].c2s \o conn[k.conn].outgoing_buffer = << >>
        /\ IsPrefixOf(StartupCommands(k.client_id, k.abilities),
                      conn[k.conn].outgoing_commands)

\* the same for connections made while no client id is set
StartupWithoutIdInOrder ==
    \A k \in worker.step.setstate :
        k.client_id = None =>
            /\ conn[k.conn].connected
            /\ IsPrefixOf(StartupCommands(k.client_id, k.abilities),
                          conn[k.conn].outgoing_commands)

\* a poll iteration of work() ends while the worker is terminated and jobs of
\* the pool still run
DrainBegins ==
    /\ worker.constructed
    /\ call.pc = "poll"
    /\ call'.fn = "work"
    /\ call' /= call
    /\ worker'.terminated
    /\ has_pending_stuff([worker |-> worker'])

Handled(c) == Cardinality({ i \in 1..Len(hist.handled) : hist.handled[i] = c })

\* C31: a connection that failed in an iteration of poll is handled and
\* closed once, has left the working set and is not connected again when the
\* iteration ends
C31_ClosedOnce ==
    \A c \in connection_ls :
        (call.pc = "poll" /\ Handled(c) > 0) =>
            /\ Handled(c) = 1
            /\ c \notin call.workset
            /\ ~conn[c].connected

\* C32: an ERROR frame dispatched by a worker handler raises nothing, and
\* work() does not end with an exception because of it
C32_ErrorForwarded ==
    \A e \in worker.step.error :
        /\ e.raised = "none"
        /\ call.raised = "none"

\* C33: a job handle, once set, is never replaced by another value
C33_HandleAssignedOnce ==
    [][ \A r \in Reqs : req[r].handle /= None => req'[r].handle = req[r].handle ]_vars

C35_ExceptionThenFail ==
    \A e \in worker.step.raised :
        /\ e.job \in DOMAIN worker.reports
        /\ TerminalReports(worker.reports[e.job]) = <<"WORK_EXCEPTION", "WORK_FAIL">>

\* C36: establish_connection on a connection that is connected leaves its
\* socket, its buffers and queues and its handler as they are and does not call
\* set_state: a work() that finds c connected enters its poll with c untouched
C36_EstablishIdempotent ==
    [][ \A c \in connection_ls :
          (call.pc = "idle" /\ call'.pc = "poll" /\ call'.fn = "work" /\ c \in hist'.kept)
             => /\ conn'[c] = conn[c]
                /\ handler'[c] = handler[c]
                /\ net'[c] = net[c]
                /\ \A e \in worker'.step.setstate : e.conn /= c ]_vars

\* work() found c1 connected and is in its poll
C36_Witness ==
    /\ call.pc = "poll" /\ call.fn = "work"
    /\ "c1" \in hist.kept
    /\ conn["c1"].connected

\* C37: with commands sent ahead of the responses popped, no read fails to
\* parse a line the server wrote for the command it answers, and the responses
\* pushed and popped are, in order, the responses the server has ended
C37_PipelinedPairs ==
    /\ hist.admin.read.raised = "none"
    /\ IsPrefixOf(AdminDelivered, hist.admin.expected)
    /\ IsPrefixOf(hist.admin.popped, hist.admin.expected)

\* the commands of known type among cmds, in their order
ValidOf(cmds) == SelectSeq(cmds, LAMBDA cmd : cmd.cmd_type \in KnownCommands)

\* C38: when send_commands_to_buffer fails with ProtocolError, the commands of
\* known type that were queued before the call are afterwards in the outbound
\* buffer or still in the outbound queue, in their order
C38_NoCommandLost ==
    (hist.pack.called /\ hist.pack.raised = "ProtocolError") =>
        conn["c1"].outgoing_buffer \o Frames(ValidOf(conn["c1"].outgoing_commands), MAGIC_REQ)
            = hist.pack.buffer \o Frames(ValidOf(hist.pack.queue), MAGIC_REQ)

\* a NOOP was dispatched on c while every slot of the pool was taken
Hibernates(c) ==
    \E e \in worker.step.noop :
        e.conn = c /\ worker.concurrency > 0 /\ e.running >= worker.concurrency

WakeSent ==
    \/ \E n \in worker.step.notified : n.command = "s"
    \/ \E i \in 1..Len(worker.pipe.data) : worker.pipe.data[i] = "s"

\* the main loop read an 's' and called prepare() on the handler of c1
WakeServed == "c1" \in worker.step.woken

\* C40: unless the main loop stays in one poll for ever, every 's' wake is
\* followed by prepare() on the handler of the connected connection c1
C40_WakePrepares ==
    \/ <>[](call.pc = "poll")
    \/ WakeSent ~> (WakeServed \/ ~conn["c1"].connected)

====
